---- MODULE Spec2Model ----
(***************************************************************************)
(* NeuroCode: the Merkle fingerprint engine (merkle/hash_calculator.py),   *)
(* the change detector (merkle/change_detector.py) and the part of the     *)
(* Tree-sitter extractor (parser/tree_sitter_parser.py) that builds the    *)
(* records they hash, and the project parser (parser/project_parser.py)    *)
(* that builds the symbol table and the relationships of a project.        *)
(*                                                                         *)
(* Representation.  A Python str that is hashed is a Text: a sequence of   *)
(* tokens (TLA+ strings); None and "" are both <<>>, which is how the code *)
(* treats them (every use is a truthiness test).  Simple names are TLA+    *)
(* strings, and a dotted qualified name "m.K.run" is the sequence of its   *)
(* simple names <<"m", "K", "run">>.  SHA-256 is modelled as               *)
(* collision free: the digest of a content is the content between the      *)
(* tokens "sha256(" and ")", so two digests are equal exactly when the     *)
(* hashed byte strings are equal.  sorted() needs a total order on str:    *)
(* Texts are ordered lexicographically by the rank of their tokens.        *)
(***************************************************************************)
EXTENDS Integers, Sequences, FiniteSets, TLC

VARIABLES
    \* ChangeDetector and the filesystem it reads
    disk,           \* path -> what is on disk at that path
    hash_cache,     \* ChangeDetector._hash_cache: path -> {qualified_name -> hash}
    module_cache,   \* ChangeDetector._module_cache: path -> ModuleInfo
    changes,        \* the ChangeSet the last step returned
    call,           \* the last step: the operation and the paths given to it
    \* two snapshots of one file, parsed and fingerprinted
    snapA, snapB,   \* the source of the file before and after an edit
    edit,           \* the kind of edit that leads from snapA to snapB
    modA, modB,     \* the ModuleInfo records (after hash_tree wrote .hash)
    treeA, treeB,   \* hash_tree(modA), hash_tree(modB)
    treeA2,         \* the result of a second hash_tree call on modA
    stage,          \* "source" | "hashed" | "rehashed"
    \* HashCalculator.compare_hashes on arbitrary maps
    old_hashes, new_hashes, \* its two arguments
    diff,           \* its result (added, removed, modified)
    compared,       \* whether diff is the result for the two arguments
    \* ProjectParser on one project
    project,        \* the files under the project root: path -> what is there
    progress,       \* where parse_project is: the pass and the files Pass 2 has done
    packages,       \* ProjectParser.packages (the _package_map is its index by path)
    symbols,        \* ProjectParser.symbols: id -> SymbolEntry
    qualified_to_id,\* ProjectParser.qualified_to_id
    file_imports,   \* ProjectParser.file_imports: file_id -> {alias -> ImportEntry}
    module_infos,   \* ProjectParser.modules
    relationships,  \* ProjectParser.relationships
    errors,         \* ProjectParser.errors
    \* _resolve_relative_import of both resolvers on one input
    relative_import,\* the arguments and, once resolved, the two results
    \* Debouncer and its Timer threads
    debouncer,      \* _pending, _timer (0: None) and the Timer threads started
    since_batch,    \* path -> the last debounce() call for it since the batch before
    armed_last,     \* the Timer the latest debounce() call started
    handed,         \* the batch the last step handed over, as the observer notes it
    awaited,        \* the paths given to debounce() and in no batch since
    twice,          \* whether a batch held a path that was not awaited
    \* Neo4jClient.execute_query, one call
    execution,      \* retries, the passes of the loop so far, last_error, the outcome
    outcomes,       \* what the attempts made so far ended with
    \* parse_project of scripts/parse_deep.py
    emitter         \* how it ended and the upserts it has sent to the store

vars == <<disk, hash_cache, module_cache, changes, call,
          snapA, snapB, edit, modA, modB, treeA, treeB, treeA2, stage,
          old_hashes, new_hashes, diff, compared,
          project, progress, packages, symbols, qualified_to_id, file_imports,
          module_infos, relationships, errors, relative_import,
          debouncer, since_batch, armed_last, handed, awaited, twice,
          execution, outcomes, emitter>>

detector_vars == <<disk, hash_cache, module_cache, changes, call>>
snapshot_vars == <<snapA, snapB, edit, modA, modB, treeA, treeB, treeA2, stage>>
compare_vars == <<old_hashes, new_hashes, diff, compared>>
project_vars == <<project, progress, packages, symbols, qualified_to_id, file_imports,
                  module_infos, relationships, errors>>
parser_vars == <<project_vars, relative_import>>
debouncer_vars == <<debouncer, since_batch, armed_last, handed, awaited, twice>>
client_vars == <<execution, outcomes>>
service_vars == <<debouncer_vars, client_vars, emitter>>

-----------------------------------------------------------------------------
(* Text and the order sorted() uses *)

\* The tokens of the model in the order Python's str comparison gives them
\* (code point order for the names; any fixed order for the digest brackets).
TokenOrder ==
    <<"NUL", "sha256(", ")", "(", "*", "**", ", ", "->", ".", "1", "2", ":", "=", "@",
      "K", "N", "__init__", "a/m.py", "a/n.py", "alias", "async", "b/m.py", "bar", "cache",
      "d", "e", "f", "g", "generator", "h", "int", "m", "n", "os", "pkg",
      "relative:", "run", "self", "self.run", "str", "sys", "x", "y", "doc", "helper",
      "\"", "\\xff">>

Rank == [t \in {TokenOrder[i] : i \in 1..Len(TokenOrder)} |->
            CHOOSE i \in 1..Len(TokenOrder) : TokenOrder[i] = t]

\* a < b for two str values
TextLess(a, b) ==
    \E i \in 1..Len(b) :
        /\ \A j \in 1..(i - 1) : j <= Len(a) /\ a[j] = b[j]
        /\ \/ i = Len(a) + 1
           \/ i <= Len(a) /\ Rank[a[i]] < Rank[b[i]]

\* sorted(xs) for a list of str
Sorted(xs) == SortSeq(xs, TextLess)

\* str(x) of a simple name: "" is the empty Text
Str(name) == IF name = "" THEN <<>> ELSE <<name>>

RECURSIVE Join(_, _)
\* sep.join(parts)
Join(parts, sep) ==
    IF parts = <<>> THEN <<>>
    ELSE IF Len(parts) = 1 THEN parts[1]
    ELSE parts[1] \o sep \o Join(Tail(parts), sep)

\* the increasing sequence of a set of indices
IndexSeq(S) == [k \in 1..Cardinality(S) |-> CHOOSE i \in S : Cardinality({j \in S : j <= i}) = k]

RECURSIVE Flatten(_)
\* the concatenation of a list of lists
Flatten(xss) == IF xss = <<>> THEN <<>> ELSE xss[1] \o Flatten(Tail(xss))

-----------------------------------------------------------------------------
(* HashCalculator (include_docstrings = True, the default the detector uses) *)

include_docstrings == TRUE

\* _compute_hash: sha256 of the truthy components joined by NUL
compute_hash(components) ==
    <<"sha256(">> \o Join(SelectSeq(components, LAMBDA c : c # <<>>), <<"NUL">>) \o <<")">>

\* DecoratorInfo.qualified_name
DecoratorQualifiedName(d) ==
    IF d.arguments # <<>>
    THEN <<"@">> \o Str(d.name) \o <<"(">> \o Join(d.arguments, <<", ">>) \o <<")">>
    ELSE <<"@">> \o Str(d.name)

hash_variable(var) ==
    compute_hash(<<Str(var.name)>>
                 \o (IF var.type_hint # <<>> THEN <<var.type_hint>> ELSE <<>>)
                 \o (IF var.initial_value # <<>> THEN <<var.initial_value>> ELSE <<>>))

\* self.hash_variable(var) for var in vs
VariableHashes(vs) == [i \in 1..Len(vs) |-> hash_variable(vs[i])]

\* sorted(imp.aliases.items()) rendered as name=alias; aliases is a list of
\* <<name, alias>> pairs with one pair per name (a dict)
AliasComponents(aliases) ==
    Sorted([i \in 1..Len(aliases) |-> Str(aliases[i][1]) \o <<"=">> \o Str(aliases[i][2])])

hash_import(imp) ==
    compute_hash(<<Str(imp.module_name)>>
                 \o (IF imp.is_relative
                     THEN << <<"relative:", ToString(imp.relative_level)>> >> ELSE <<>>)
                 \o Sorted([i \in 1..Len(imp.imported_names) |-> Str(imp.imported_names[i])])
                 \o AliasComponents(imp.aliases))

\* the parameter signature string built in hash_function
ParamStr(param) ==
    LET s1 == Str(param.name)
        s2 == IF param.type_hint # <<>> THEN s1 \o <<":">> \o param.type_hint ELSE s1
        s3 == IF param.default_value # <<>> THEN s2 \o <<"=">> \o param.default_value ELSE s2
        s4 == IF param.is_args THEN <<"*">> \o s3 ELSE s3
    IN  IF param.is_kwargs THEN <<"**">> \o s4 ELSE s4

hash_function(func) ==
    compute_hash(<<Str(func.name)>>
                 \o [i \in 1..Len(func.parameters) |-> ParamStr(func.parameters[i])]
                 \o (IF func.return_type # <<>> THEN << <<"->">> \o func.return_type >> ELSE <<>>)
                 \o [i \in 1..Len(func.decorators) |-> DecoratorQualifiedName(func.decorators[i])]
                 \o (IF func.is_async THEN << <<"async">> >> ELSE <<>>)
                 \o (IF func.is_generator THEN << <<"generator">> >> ELSE <<>>)
                 \o (IF include_docstrings /\ func.docstring # <<>>
                     THEN <<func.docstring>> ELSE <<>>)
                 \o Sorted(func.calls)
                 \o Sorted(VariableHashes(func.variables))
                 \o (IF func.body_hash # <<>> THEN <<func.body_hash>> ELSE <<>>))

\* self.hash_function(f) for f in fs
FunctionHashes(fs) == [i \in 1..Len(fs) |-> hash_function(fs[i])]

RECURSIVE hash_class(_)
hash_class(cls) ==
    compute_hash(<<Str(cls.name)>>
                 \o Sorted(cls.bases)
                 \o [i \in 1..Len(cls.decorators) |-> DecoratorQualifiedName(cls.decorators[i])]
                 \o (IF include_docstrings /\ cls.docstring # <<>>
                     THEN <<cls.docstring>> ELSE <<>>)
                 \o Sorted(FunctionHashes(cls.methods))
                 \o Sorted(VariableHashes(cls.class_variables))
                 \o Sorted(VariableHashes(cls.instance_variables))
                 \o Sorted([i \in 1..Len(cls.nested_classes) |->
                               hash_class(cls.nested_classes[i])]))

\* hash_module as it would be if it kept the functions in source order
hash_module_in_source_order(module) ==
    compute_hash(<<Str(module.path)>>
                 \o (IF include_docstrings /\ module.docstring # <<>>
                     THEN <<module.docstring>> ELSE <<>>)
                 \o Sorted([i \in 1..Len(module.imports) |-> hash_import(module.imports[i])])
                 \o Sorted([i \in 1..Len(module.classes) |-> hash_class(module.classes[i])])
                 \o FunctionHashes(module.functions)
                 \o Sorted(VariableHashes(module.variables)))

\* hash_module as it would be if it read the hash field of the record
hash_module_reading_hash(module) ==
    compute_hash(<<Str(module.path), module.hash>>
                 \o (IF include_docstrings /\ module.docstring # <<>>
                     THEN <<module.docstring>> ELSE <<>>)
                 \o Sorted([i \in 1..Len(module.imports) |-> hash_import(module.imports[i])])
                 \o Sorted([i \in 1..Len(module.classes) |-> hash_class(module.classes[i])])
                 \o Sorted(FunctionHashes(module.functions))
                 \o Sorted(VariableHashes(module.variables)))

hash_module(module) ==
    compute_hash(<<Str(module.path)>>
                 \o (IF include_docstrings /\ module.docstring # <<>>
                     THEN <<module.docstring>> ELSE <<>>)
                 \o Sorted([i \in 1..Len(module.imports) |-> hash_import(module.imports[i])])
                 \o Sorted([i \in 1..Len(module.classes) |-> hash_class(module.classes[i])])
                 \o Sorted(FunctionHashes(module.functions))
                 \o Sorted(VariableHashes(module.variables)))

\* ModuleInfo.qualified_name
ModuleQualifiedName(module) ==
    IF module.package # <<>> THEN module.package \o <<module.name>> ELSE <<module.name>>

\* ClassInfo.all_variables
all_variables(cls) == cls.class_variables \o cls.instance_variables

RECURSIVE hash_class_recursive(_)
\* _hash_class_recursive: the assignments hashes[key] = value it makes, in order
hash_class_recursive(cls) ==
    [i \in 1..Len(cls.methods) |->
        <<cls.methods[i].qualified_name, hash_function(cls.methods[i])>>]
    \o [i \in 1..Len(all_variables(cls)) |->
           <<Append(cls.qualified_name, all_variables(cls)[i].name),
             hash_variable(all_variables(cls)[i])>>]
    \o Flatten([i \in 1..Len(cls.nested_classes) |->
                   hash_class_recursive(cls.nested_classes[i])])
    \o << <<cls.qualified_name, hash_class(cls)>> >>

\* the assignments hash_tree makes to its dict, in order
HashTreeItems(module) ==
    Flatten([i \in 1..Len(module.classes) |-> hash_class_recursive(module.classes[i])])
    \o [i \in 1..Len(module.functions) |->
           <<module.functions[i].qualified_name, hash_function(module.functions[i])>>]
    \o [i \in 1..Len(module.variables) |->
           <<Append(ModuleQualifiedName(module), module.variables[i].name),
             hash_variable(module.variables[i])>>]
    \o [i \in 1..Len(module.imports) |->
           <<Append(ModuleQualifiedName(module), "__import_" \o ToString(i - 1) \o "__"),
             hash_import(module.imports[i])>>]
    \o << <<ModuleQualifiedName(module), hash_module(module)>> >>

\* a dict built by the assignments items[1], items[2], ...: the last one of a key wins
DictOf(items) ==
    [k \in {items[i][1] : i \in 1..Len(items)} |->
        LET last == CHOOSE i \in 1..Len(items) :
                        /\ items[i][1] = k
                        /\ \A j \in (i + 1)..Len(items) : items[j][1] # k
        IN  items[last][2]]

\* hash_tree: the dict it returns
hash_tree(module) == DictOf(HashTreeItems(module))

\* hash_tree: the module record after the call (module.hash = module_hash)
HashTreeWrite(module) == [module EXCEPT !.hash = hash_module(module)]

\* compare_hashes as it would be if it reported no modified key
compare_hashes_without_modified(old, new) ==
    [added |-> DOMAIN new \ DOMAIN old,
     removed |-> DOMAIN old \ DOMAIN new,
     modified |-> {}]

\* compare_hashes
compare_hashes(old, new) ==
    LET old_keys == DOMAIN old
        new_keys == DOMAIN new
        common == old_keys \cap new_keys
    IN  [added |-> new_keys \ old_keys,
         removed |-> old_keys \ new_keys,
         modified |-> {key \in common : old[key] # new[key]}]

-----------------------------------------------------------------------------
(* TreeSitterParser.  A source file is the list of the children of its     *)
(* root node; a node is a record with a type and the fields the extractor  *)
(* reads.  Source locations, lines_of_code and cyclomatic complexity are   *)
(* left out: no operation modelled here reads them.                        *)

QUOTE == "\""
TRIPLE == "\"\"\""
BADBYTES == "\\xff"   \* bytes that are not valid UTF-8

\* _get_text raises UnicodeDecodeError on such a node
Decodable(text) == \A i \in 1..Len(text) : text[i] # BADBYTES

\* _clean_docstring
clean_docstring(docstring) ==
    IF docstring # <<>> /\ Head(docstring) \in {QUOTE, TRIPLE}
    THEN SubSeq(docstring, 2, Len(docstring) - 1)
    ELSE docstring

IsStringStatement(child) ==
    child.type = "expression_statement" /\ child.expr.type = "string"

\* _extract_module_docstring and _extract_block_docstring: the first string
\* statement, unless a statement that is no expression statement comes first
extract_docstring(children) ==
    LET found == {i \in 1..Len(children) :
                     /\ IsStringStatement(children[i])
                     /\ \A j \in 1..(i - 1) :
                            children[j].type \in {"expression_statement", "comment"}}
    IN  IF found = {} THEN <<>>
        ELSE clean_docstring(children[CHOOSE i \in found : \A j \in found : i <= j].expr.text)

IsAssignmentTo(child, left_type) ==
    /\ child.type = "expression_statement"
    /\ child.expr.type = "assignment"
    /\ child.expr.left.type = left_type

\* _parse_module_variable (the caller appends only when it is not None)
parse_module_variable(node) ==
    [name |-> node.expr.left.text, type_hint |-> <<>>,
     initial_value |-> node.expr.right, scope |-> "module"]

\* _parse_class_variable
parse_class_variable(node) ==
    [name |-> node.expr.left.text, type_hint |-> node.expr.typ,
     initial_value |-> node.expr.right, scope |-> "class"]

\* _extract_instance_variables: every self.<attr> = ... of the __init__ node
extract_instance_variables(init_node) ==
    LET block == init_node.body
        hits == SelectSeq(block, LAMBDA c : IsAssignmentTo(c, "attribute")
                                            /\ c.expr.left.object = "self")
    IN  [i \in 1..Len(hits) |->
            [name |-> hits[i].expr.left.attribute, type_hint |-> <<>>,
             initial_value |-> hits[i].expr.right, scope |-> "instance"]]

\* _extract_local_variables: the first assignment to each identifier
extract_local_variables(block) ==
    LET keep == {i \in 1..Len(block) :
                    /\ IsAssignmentTo(block[i], "identifier")
                    /\ \A j \in 1..(i - 1) :
                           IsAssignmentTo(block[j], "identifier")
                               => block[j].expr.left.text # block[i].expr.left.text}
        idx == IndexSeq(keep)
    IN  [k \in 1..Len(idx) |->
            [name |-> block[idx[k]].expr.left.text, type_hint |-> <<>>,
             initial_value |-> block[idx[k]].expr.right, scope |-> "function"]]

\* _extract_function_calls: the function part of every call expression
extract_function_calls(block) ==
    LET hits == SelectSeq(block, LAMBDA c : c.type = "expression_statement"
                                            /\ c.expr.type = "call")
    IN  [i \in 1..Len(hits) |-> hits[i].expr.function]

\* _has_yield
has_yield(block) ==
    \E i \in 1..Len(block) :
        block[i].type = "expression_statement" /\ block[i].expr.type = "yield"

\* _parse_parameters: one ParameterInfo per parameter node
parse_parameter(child) ==
    [name |-> child.name,
     type_hint |-> IF child.type \in {"typed_parameter", "typed_default_parameter"}
                   THEN child.ptype ELSE <<>>,
     default_value |-> IF child.type \in {"default_parameter", "typed_default_parameter"}
                       THEN child.value ELSE <<>>,
     is_args |-> child.type = "list_splat_pattern",
     is_kwargs |-> child.type = "dictionary_splat_pattern"]

\* _parse_decorator
parse_decorator(node) ==
    IF node.expr.type \in {"identifier", "attribute", "dotted_name"}
    THEN [name |-> node.expr.text, arguments |-> <<>>]
    ELSE IF node.expr.type = "call"
    THEN [name |-> node.expr.function, arguments |-> node.expr.arguments]
    ELSE [name |-> "", arguments |-> <<>>]

\* f"{parent_qualified_name}.{name}" if parent_qualified_name else name
Qualify(parent_qualified_name, name) ==
    IF parent_qualified_name # <<>> THEN Append(parent_qualified_name, name) ELSE <<name>>

\* _parse_function.  body_hash keeps its dataclass default "": no statement of
\* the extractor assigns it.
parse_function(node, parent_qualified_name, is_method, decorators) ==
    [name |-> node.name,
     qualified_name |-> Qualify(parent_qualified_name, node.name),
     parameters |-> [i \in 1..Len(node.parameters) |-> parse_parameter(node.parameters[i])],
     return_type |-> node.return_type,
     decorators |-> decorators,
     docstring |-> extract_docstring(node.body),
     is_async |-> node.is_async,
     is_generator |-> has_yield(node.body),
     is_method |-> is_method,
     variables |-> extract_local_variables(node.body),
     calls |-> extract_function_calls(node.body),
     body_hash |-> <<>>]

\* _parse_decorated: the decorators gathered before the definition
parse_decorators(node) ==
    [i \in 1..Len(node.decorators) |-> parse_decorator(node.decorators[i])]

\* the definition a class-body or module child holds, "" when it holds none
DefinitionKind(child) ==
    IF child.type \in {"function_definition", "class_definition"} THEN child.type
    ELSE IF child.type = "decorated_definition" THEN child.definition.type
    ELSE ""

DefinitionNode(child) ==
    IF child.type = "decorated_definition" THEN child.definition ELSE child

DefinitionDecorators(child) ==
    IF child.type = "decorated_definition" THEN parse_decorators(child) ELSE <<>>

\* _parse_class_bases: identifier and attribute children; keyword arguments are skipped
parse_class_bases(bases) ==
    LET hits == SelectSeq(bases, LAMBDA b : b.type \in {"identifier", "attribute"})
    IN  [i \in 1..Len(hits) |-> <<hits[i].text>>]

RECURSIVE parse_class(_, _, _)
\* _parse_class with _parse_class_body
parse_class(node, parent_qualified_name, decorators) ==
    LET qualified_name == Qualify(parent_qualified_name, node.name)
        body == node.body
        \* the docstring is taken only from the first child of the block
        has_doc == body # <<>> /\ IsStringStatement(body[1])
        var_nodes == SelectSeq(IF has_doc THEN Tail(body) ELSE body,
                               LAMBDA c : IsAssignmentTo(c, "identifier"))
        method_nodes == SelectSeq(body, LAMBDA c : DefinitionKind(c) = "function_definition")
        class_nodes == SelectSeq(body, LAMBDA c : DefinitionKind(c) = "class_definition")
        \* only an undecorated __init__ is scanned for instance variables
        init_nodes == SelectSeq(body, LAMBDA c : c.type = "function_definition"
                                                 /\ c.name = "__init__")
        bases == parse_class_bases(node.bases)
    IN  [name |-> node.name,
         qualified_name |-> qualified_name,
         bases |-> bases,
         decorators |-> decorators,
         docstring |-> IF has_doc THEN clean_docstring(body[1].expr.text) ELSE <<>>,
         is_abstract |-> \/ \E i \in 1..Len(decorators) :
                               decorators[i].name \in {"abstractmethod", "ABC", "ABCMeta"}
                         \/ \E i \in 1..Len(bases) : bases[i] \in {<<"ABC">>, <<"ABCMeta">>},
         methods |-> [i \in 1..Len(method_nodes) |->
                         parse_function(DefinitionNode(method_nodes[i]), qualified_name,
                                        TRUE, DefinitionDecorators(method_nodes[i]))],
         class_variables |-> [i \in 1..Len(var_nodes) |-> parse_class_variable(var_nodes[i])],
         instance_variables |-> Flatten([i \in 1..Len(init_nodes) |->
                                            extract_instance_variables(init_nodes[i])]),
         nested_classes |-> [i \in 1..Len(class_nodes) |->
                                parse_class(DefinitionNode(class_nodes[i]), qualified_name,
                                            DefinitionDecorators(class_nodes[i]))]]

\* _parse_import
parse_import(node) ==
    LET c == node.children
        dotted == {i \in 1..Len(c) : c[i].type = "dotted_name"}
        aliased == SelectSeq(c, LAMBDA n : n.type = "aliased_import")
        with_alias == SelectSeq(aliased, LAMBDA n : n.alias # "")
    IN  [module_name |-> IF dotted = {} THEN ""
                         ELSE c[CHOOSE i \in dotted : \A j \in dotted : j <= i].text,
         imported_names |-> [i \in 1..Len(aliased) |-> aliased[i].name],
         aliases |-> [i \in 1..Len(with_alias) |-> <<with_alias[i].name, with_alias[i].alias>>],
         is_relative |-> FALSE,
         relative_level |-> 0]

\* _parse_from_import.  Every dotted_name child takes the first branch of the
\* loop and overwrites module_name, the imported names included; the branch
\* that appends a plain imported name is never reached by a dotted_name.
parse_from_import(node) ==
    LET c == node.children
        dotted == {i \in 1..Len(c) : c[i].type = "dotted_name"}
        relative == {i \in 1..Len(c) : c[i].type = "relative_import"}
        names_module == {i \in dotted \cup {j \in relative : c[j].module # ""} :
                            \A k \in dotted \cup {j \in relative : c[j].module # ""} : k <= i}
        last_rel == {i \in relative : \A k \in relative : k <= i}
        named == SelectSeq(c, LAMBDA n : n.type \in {"aliased_import", "wildcard_import"})
        with_alias == SelectSeq(c, LAMBDA n : n.type = "aliased_import" /\ n.alias # "")
    IN  [module_name |-> IF names_module = {} THEN ""
                         ELSE LET n == c[CHOOSE i \in names_module : TRUE]
                              IN  IF n.type = "dotted_name" THEN n.text ELSE n.module,
         imported_names |-> [i \in 1..Len(named) |->
                                IF named[i].type = "wildcard_import" THEN "*"
                                ELSE named[i].name],
         aliases |-> [i \in 1..Len(with_alias) |-> <<with_alias[i].name, with_alias[i].alias>>],
         is_relative |-> relative # {},
         relative_level |-> IF relative = {} THEN 0
                            ELSE c[CHOOSE i \in last_rel : TRUE].level]

\* Path(p).stem of the paths of the model
Stem(path) ==
    CASE path = "a/m.py" -> "m"
      [] path = "b/m.py" -> "m"
      [] path = "a/n.py" -> "n"

\* ModuleInfo(path=file_path, name=file_path.stem): every other field at its default
EmptyModule(file_path) ==
    [path |-> file_path, name |-> Stem(file_path), package |-> <<>>, docstring |-> <<>>,
     imports |-> <<>>, classes |-> <<>>, functions |-> <<>>, variables |-> <<>>,
     hash |-> <<>>]

\* parse_content raises (UnicodeDecodeError from _get_text) when a node whose
\* text it extracts holds invalid bytes: here the value of a module variable
ParseRaises(content) ==
    \E i \in 1..Len(content) :
        IsAssignmentTo(content[i], "identifier") /\ ~Decodable(content[i].expr.right)

\* parse_content
parse_content(content, file_path) ==
    LET name == <<Stem(file_path)>>   \* module.name, the parent of the top-level names
        import_nodes == SelectSeq(content, LAMBDA c : c.type \in {"import_statement",
                                                                  "import_from_statement"})
        class_nodes == SelectSeq(content, LAMBDA c : DefinitionKind(c) = "class_definition")
        function_nodes == SelectSeq(content,
                                    LAMBDA c : DefinitionKind(c) = "function_definition")
        var_nodes == SelectSeq(content, LAMBDA c : IsAssignmentTo(c, "identifier"))
    IN  [EmptyModule(file_path) EXCEPT
            !.docstring = extract_docstring(content),
            !.imports = [i \in 1..Len(import_nodes) |->
                            IF import_nodes[i].type = "import_statement"
                            THEN parse_import(import_nodes[i])
                            ELSE parse_from_import(import_nodes[i])],
            !.classes = [i \in 1..Len(class_nodes) |->
                            parse_class(DefinitionNode(class_nodes[i]), name,
                                        DefinitionDecorators(class_nodes[i]))],
            !.functions = [i \in 1..Len(function_nodes) |->
                              parse_function(DefinitionNode(function_nodes[i]), name, FALSE,
                                             DefinitionDecorators(function_nodes[i]))],
            !.variables = [i \in 1..Len(var_nodes) |-> parse_module_variable(var_nodes[i])]]

-----------------------------------------------------------------------------
(* The source files of the model *)

ReturnStmt(value) == [type |-> "return_statement", value |-> <<value>>]
CallStmt(function) ==
    [type |-> "expression_statement", expr |-> [type |-> "call", function |-> <<function>>]]
YieldStmt == [type |-> "expression_statement", expr |-> [type |-> "yield"]]
StringStmt(text) ==
    [type |-> "expression_statement", expr |-> [type |-> "string", text |-> <<QUOTE, text, QUOTE>>]]
AssignStmt(name, typ, value) ==
    [type |-> "expression_statement",
     expr |-> [type |-> "assignment", left |-> [type |-> "identifier", text |-> name],
               typ |-> typ, right |-> <<value>>]]
SelfAssignStmt(attribute, value) ==
    [type |-> "expression_statement",
     expr |-> [type |-> "assignment",
               left |-> [type |-> "attribute", object |-> "self", attribute |-> attribute],
               typ |-> <<>>, right |-> <<value>>]]
FunctionDef(name, parameters, return_type, body) ==
    [type |-> "function_definition", is_async |-> FALSE, name |-> name,
     parameters |-> parameters, return_type |-> return_type, body |-> body]
ClassDef(name, bases, body) ==
    [type |-> "class_definition", name |-> name, bases |-> bases, body |-> body]
Decorated(decorators, definition) ==
    [type |-> "decorated_definition", decorators |-> decorators, definition |-> definition]
DecoratorName(name) == [type |-> "decorator", expr |-> [type |-> "identifier", text |-> name]]
DecoratorCall(name, arguments) ==
    [type |-> "decorator",
     expr |-> [type |-> "call", function |-> name, arguments |-> arguments]]
Param(type, name, ptype, value) ==
    [type |-> type, name |-> name, ptype |-> ptype, value |-> value]
DottedName(text) == [type |-> "dotted_name", text |-> text]
AliasedImport(name, alias) == [type |-> "aliased_import", name |-> name, alias |-> alias]

\* def f(): return 1
SrcF == FunctionDef("f", <<>>, <<>>, <<ReturnStmt("1")>>)
\* def f(x: int = 1) -> str: bar(); y = 1
SrcFCall ==
    FunctionDef("f", <<Param("typed_default_parameter", "x", <<"int">>, <<"1">>)>>, <<"str">>,
                <<CallStmt("bar"), AssignStmt("y", <<>>, "1")>>)
\* @d / @e(1) / def g(): "doc"; yield
SrcG ==
    Decorated(<<DecoratorName("d"), DecoratorCall("e", << <<"1">> >>)>>,
              FunctionDef("g", <<>>, <<>>, <<StringStmt("doc"), YieldStmt>>))
\* @cache / @cache() / def h(): return 1
SrcH ==
    Decorated(<<DecoratorName("cache"), DecoratorCall("cache", <<>>)>>,
              FunctionDef("h", <<>>, <<>>, <<ReturnStmt("1")>>))
\* class K: x: int = 1; def __init__(self): self.y = 1; def run(self): self.run();
\*          class N: def run(self): return 1
SrcK ==
    ClassDef("K", <<>>,
             <<AssignStmt("x", <<"int">>, "1"),
               FunctionDef("__init__", <<Param("identifier", "self", <<>>, <<>>)>>, <<>>,
                           <<SelfAssignStmt("y", "1")>>),
               FunctionDef("run", <<Param("identifier", "self", <<>>, <<>>)>>, <<>>,
                           <<CallStmt("self.run")>>),
               ClassDef("N", <<>>,
                        <<FunctionDef("run", <<Param("identifier", "self", <<>>, <<>>)>>, <<>>,
                                      <<ReturnStmt("1")>>)>>)>>)
\* import os
SrcImportOs == [type |-> "import_statement", children |-> <<DottedName("os")>>]
\* import sys
SrcImportSys == [type |-> "import_statement", children |-> <<DottedName("sys")>>]
\* from pkg import helper as alias
SrcFromImport ==
    [type |-> "import_from_statement",
     children |-> <<DottedName("pkg"), AliasedImport("helper", "alias")>>]
\* x = 1
SrcX == AssignStmt("x", <<>>, "1")
\* "doc"
SrcDoc == StringStmt("doc")
\* x = <a string literal whose bytes are not UTF-8>
SrcBad == AssignStmt("x", <<>>, BADBYTES)

\* the statements a snapshot is made of
Pool == {SrcF, SrcFCall, SrcG, SrcH, SrcK, SrcImportOs, SrcImportSys, SrcFromImport,
         SrcX, SrcDoc}

\* the greatest number of top-level statements of a snapshot
MaxStmts == 2

Sources == UNION {[1..n -> Pool] : n \in 0..MaxStmts}

\* the file the two snapshots are versions of
SnapshotPath == "a/m.py"

-----------------------------------------------------------------------------
(* Two snapshots of one file: snapA is edited into snapB, both are parsed  *)
(* and fingerprinted (module = parser.parse_content(code, path);           *)
(* hasher.hash_tree(module)), and hash_tree is called once more on the     *)
(* first record.                                                           *)

EmptyDict == [k \in {} |-> <<>>]

NoEdit == [kind |-> "none", at |-> 0, perm |-> <<>>]

InitSnapshots ==
    /\ snapA \in Sources
    /\ snapB = snapA
    /\ edit = NoEdit
    /\ modA = EmptyModule(SnapshotPath)
    /\ modB = EmptyModule(SnapshotPath)
    /\ treeA = EmptyDict
    /\ treeB = EmptyDict
    /\ treeA2 = EmptyDict
    /\ stage = "source"

\* the snapshots are not in use
IdleSnapshots ==
    /\ snapA = <<>>
    /\ snapB = <<>>
    /\ edit = NoEdit
    /\ modA = EmptyModule(SnapshotPath)
    /\ modB = EmptyModule(SnapshotPath)
    /\ treeA = EmptyDict
    /\ treeB = EmptyDict
    /\ treeA2 = EmptyDict
    /\ stage = "source"

\* a function whose body returns the literal `value` in place of what it returned
WithReturn(node, value) ==
    [node EXCEPT !.body = SelectSeq(node.body, LAMBDA c : c.type # "return_statement")
                          \o <<ReturnStmt(value)>>]

\* the literal a body edit writes: one the function does not return yet
OtherLiteral(node) ==
    IF \E k \in 1..Len(node.body) : node.body[k] = ReturnStmt("2") THEN "1" ELSE "2"

\* child with the function it holds replaced
WithDefinition(child, definition) ==
    IF child.type = "decorated_definition"
    THEN [child EXCEPT !.definition = definition] ELSE definition

Edited(kind, at, perm, source) ==
    /\ stage = "source"
    /\ edit = NoEdit
    /\ snapB' = source
    /\ edit' = [kind |-> kind, at |-> at, perm |-> perm]
    /\ UNCHANGED <<snapA, modA, modB, treeA, treeB, treeA2, stage>>
    /\ UNCHANGED <<detector_vars, compare_vars, parser_vars, service_vars>>

\* only the statements of the body of a top-level function change
EditFunctionBody ==
    \E i \in 1..Len(snapA) :
        /\ DefinitionKind(snapA[i]) = "function_definition"
        /\ LET node == DefinitionNode(snapA[i])
           IN  Edited("body", i, <<>>,
                      [snapA EXCEPT ![i] = WithDefinition(snapA[i],
                                                          WithReturn(node, OtherLiteral(node)))])

\* only the statements of the body of a method of a top-level class change
EditMethodBody ==
    \E i \in 1..Len(snapA) :
        /\ snapA[i].type = "class_definition"
        /\ \E j \in 1..Len(snapA[i].body) :
            /\ snapA[i].body[j].type = "function_definition"
            /\ LET node == snapA[i].body[j]
               IN  Edited("body", i, <<>>,
                          [snapA EXCEPT ![i].body[j] = WithReturn(node, OtherLiteral(node))])

\* the value assigned to a module variable changes
EditVariableValue ==
    \E i \in 1..Len(snapA) :
        /\ IsAssignmentTo(snapA[i], "identifier")
        /\ Edited("value", i, <<>>,
                  [snapA EXCEPT ![i].expr.right =
                      IF snapA[i].expr.right = <<"2">> THEN <<"1">> ELSE <<"2">>])

\* a method is deleted from a top-level class
DeleteMethod ==
    \E i \in 1..Len(snapA) :
        /\ snapA[i].type = "class_definition"
        /\ \E j \in 1..Len(snapA[i].body) :
            /\ snapA[i].body[j].type = "function_definition"
            /\ Edited("delete_member", i, <<>>,
                      [snapA EXCEPT ![i].body =
                          SubSeq(snapA[i].body, 1, j - 1)
                          \o SubSeq(snapA[i].body, j + 1, Len(snapA[i].body))])

\* the two decorators of a top-level function change places
SwapDecorators ==
    \E i \in 1..Len(snapA) :
        /\ snapA[i].type = "decorated_definition"
        /\ snapA[i].definition.type = "function_definition"
        /\ Len(snapA[i].decorators) = 2
        /\ snapA[i].decorators[1] # snapA[i].decorators[2]
        /\ Edited("swap_decorators", i, <<>>,
                  [snapA EXCEPT ![i].decorators =
                      <<snapA[i].decorators[2], snapA[i].decorators[1]>>])

PositionPermutations(n) == {p \in [1..n -> 1..n] : \A i, j \in 1..n : p[i] = p[j] => i = j}

\* perm moves only top-level classes and functions, among themselves
MovesOnlyDefinitions(source, perm) ==
    \A i \in 1..Len(source) :
        perm[i] # i => DefinitionKind(source[i]) # "" /\ DefinitionKind(source[perm[i]]) # ""

\* top-level classes and functions change places; every other statement stays
PermuteSiblings ==
    \E perm \in PositionPermutations(Len(snapA)) :
        /\ \E i \in 1..Len(snapA) : perm[i] # i
        /\ MovesOnlyDefinitions(snapA, perm)
        /\ Edited("permute_siblings", 0, perm, [i \in 1..Len(snapA) |-> snapA[perm[i]]])

\* top-level statements change places, one that is no class or function among them
Reorder ==
    \E perm \in PositionPermutations(Len(snapA)) :
        /\ \E i \in 1..Len(snapA) : perm[i] # i
        /\ ~MovesOnlyDefinitions(snapA, perm)
        /\ Edited("reorder", 0, perm, [i \in 1..Len(snapA) |-> snapA[perm[i]]])

\* a top-level statement is deleted
DeleteStatement ==
    \E i \in 1..Len(snapA) :
        Edited("delete", i, <<>>, SubSeq(snapA, 1, i - 1) \o SubSeq(snapA, i + 1, Len(snapA)))

\* a statement is appended
AppendStatement ==
    \E s \in Pool : Edited("append", Len(snapA) + 1, <<>>, Append(snapA, s))

\* both snapshots are parsed and fingerprinted
ParseAndHash ==
    /\ stage = "source"
    /\ LET a == parse_content(snapA, SnapshotPath)
           b == parse_content(snapB, SnapshotPath)
       IN  /\ treeA' = hash_tree(a)
           /\ modA' = HashTreeWrite(a)
           /\ treeB' = hash_tree(b)
           /\ modB' = HashTreeWrite(b)
    /\ stage' = "hashed"
    /\ UNCHANGED <<snapA, snapB, edit, treeA2>>
    /\ UNCHANGED <<detector_vars, compare_vars, parser_vars, service_vars>>

\* hash_tree is called again on the first record, which now carries its hash
HashAgain ==
    /\ stage = "hashed"
    /\ edit = NoEdit
    /\ treeA2' = hash_tree(modA)
    /\ modA' = HashTreeWrite(modA)
    /\ stage' = "rehashed"
    /\ UNCHANGED <<snapA, snapB, edit, modB, treeA, treeB>>
    /\ UNCHANGED <<detector_vars, compare_vars, parser_vars, service_vars>>

NextSnapshots ==
    \/ EditFunctionBody
    \/ EditMethodBody
    \/ EditVariableValue
    \/ DeleteMethod
    \/ SwapDecorators
    \/ PermuteSiblings
    \/ Reorder
    \/ DeleteStatement
    \/ AppendStatement
    \/ ParseAndHash
    \/ HashAgain

-----------------------------------------------------------------------------
(* HashCalculator.compare_hashes on arbitrary fingerprint maps *)

CompareNames == {<<"m">>, <<"m", "f">>, <<"m", "g">>}
CompareHashes == {<<"h", "1">>, <<"h", "2">>}

\* every dict from some of the names to the hashes
FingerprintMaps == UNION {[names -> CompareHashes] : names \in SUBSET CompareNames}

NoDiff == [added |-> {}, removed |-> {}, modified |-> {}]

InitCompare ==
    /\ old_hashes \in FingerprintMaps
    /\ new_hashes \in FingerprintMaps
    /\ diff = NoDiff
    /\ compared = FALSE

IdleCompare ==
    /\ old_hashes = EmptyDict
    /\ new_hashes = EmptyDict
    /\ diff = NoDiff
    /\ compared = FALSE

\* added, removed, modified = hasher.compare_hashes(old_hashes, new_hashes)
Compare ==
    /\ ~compared
    /\ diff' = compare_hashes(old_hashes, new_hashes)
    /\ compared' = TRUE
    /\ UNCHANGED <<old_hashes, new_hashes>>
    /\ UNCHANGED <<detector_vars, snapshot_vars, parser_vars, service_vars>>

NextCompare == Compare

-----------------------------------------------------------------------------
(* ChangeDetector *)

Paths == {"a/m.py", "b/m.py"}

\* what the files of the model hold
DetectorSources == {<<SrcF>>, <<SrcF, SrcX>>, <<SrcBad>>}

Absent == [kind |-> "absent", content |-> <<>>]
\* a path that exists and cannot be read (read_bytes raises OSError)
Unreadable == [kind |-> "unreadable", content |-> <<>>]
File(content) == [kind |-> "file", content |-> content]

\* what a path of the model can hold
DiskStates == {Absent, Unreadable} \cup {File(content) : content \in DetectorSources}

\* the greatest length of the list given to detect_changes_batch
MaxBatch == 3

PathLists == UNION {[1..n -> Paths] : n \in 0..MaxBatch}

EmptyChangeSet ==
    [added_nodes |-> {}, removed_nodes |-> {}, modified_nodes |-> {}, affected_modules |-> {}]

\* ChangeSet.merge as it would be if it kept only the sets of the other change set
merge_keeping_other(self, other) == other

\* ChangeSet.merge
merge(self, other) ==
    [added_nodes |-> self.added_nodes \cup other.added_nodes,
     removed_nodes |-> self.removed_nodes \cup other.removed_nodes,
     modified_nodes |-> self.modified_nodes \cup other.modified_nodes,
     affected_modules |-> self.affected_modules \cup other.affected_modules]

\* d.pop(key, None) and d[key] = value on a dict
Pop(d, key) == [k \in DOMAIN d \ {key} |-> d[k]]
Put(d, key, value) == [k \in DOMAIN d \cup {key} |-> IF k = key THEN value ELSE d[k]]

\* file_path.exists()
Exists(file_path) == disk[file_path].kind # "absent"

\* parse_file raises: the file is read and parse_content raises
ParseFileRaises(file_path) ==
    disk[file_path].kind = "file" /\ ParseRaises(disk[file_path].content)

\* parse_file on a path that holds d: an OSError of read_bytes gives the empty record
ParseFileOf(file_path, d) ==
    IF d.kind = "file" THEN parse_content(d.content, file_path) ELSE EmptyModule(file_path)

\* parse_file
parse_file(file_path) == ParseFileOf(file_path, disk[file_path])

\* new_module = parse_file(file_path); new_hashes = hash_tree(new_module), for
\* every path and everything it can hold: the record the parser returns, the
\* dict, and the record as hash_tree leaves it.  The values depend on nothing
\* else, so they are tabulated once.
Fingerprinted ==
    [file_path \in Paths |->
        [d \in DiskStates |->
            LET new_module == ParseFileOf(file_path, d)
            IN  [new_hashes |-> hash_tree(new_module),
                 new_module |-> HashTreeWrite(new_module)]]]

\* the deleted-file branch as it would be if it left the module cache alone
DetectDeleted_keeping_module(file_path, hc, mc) ==
    IF file_path \in DOMAIN hc
    THEN [changes |-> [EmptyChangeSet EXCEPT !.removed_nodes = DOMAIN hc[file_path],
                                             !.affected_modules = {file_path}],
          hash_cache |-> Pop(hc, file_path),
          module_cache |-> mc]
    ELSE [changes |-> EmptyChangeSet, hash_cache |-> hc, module_cache |-> mc]

\* detect_changes, the file is gone: what it returns and the caches it leaves
DetectDeleted(file_path, hc, mc) ==
    IF file_path \in DOMAIN hc
    THEN [changes |-> [EmptyChangeSet EXCEPT !.removed_nodes = DOMAIN hc[file_path],
                                             !.affected_modules = {file_path}],
          hash_cache |-> Pop(hc, file_path),
          module_cache |-> Pop(mc, file_path)]
    ELSE [changes |-> EmptyChangeSet, hash_cache |-> hc, module_cache |-> mc]

\* the existing-file branch as it would be if it did not update the hash cache
DetectExisting_keeping_cache(file_path, hc, mc) ==
    IF ParseFileRaises(file_path)
    THEN [changes |-> EmptyChangeSet, hash_cache |-> hc, module_cache |-> mc]
    ELSE LET fresh == Fingerprinted[file_path][disk[file_path]]
             old == IF file_path \in DOMAIN hc THEN hc[file_path] ELSE EmptyDict
             d == compare_hashes(old, fresh.new_hashes)
         IN  [changes |-> [added_nodes |-> d.added, removed_nodes |-> d.removed,
                           modified_nodes |-> d.modified, affected_modules |-> {file_path}],
              hash_cache |-> hc,
              module_cache |-> Put(mc, file_path, fresh.new_module)]

\* detect_changes, the file exists: what it returns and the caches it leaves
DetectExisting(file_path, hc, mc) ==
    IF ParseFileRaises(file_path)
    THEN [changes |-> EmptyChangeSet, hash_cache |-> hc, module_cache |-> mc]
    ELSE LET fresh == Fingerprinted[file_path][disk[file_path]]
             fresh_hashes == fresh.new_hashes
             old == IF file_path \in DOMAIN hc THEN hc[file_path] ELSE EmptyDict
             d == compare_hashes(old, fresh_hashes)
         IN  [changes |-> [added_nodes |-> d.added, removed_nodes |-> d.removed,
                           modified_nodes |-> d.modified, affected_modules |-> {file_path}],
              hash_cache |-> Put(hc, file_path, fresh_hashes),
              module_cache |-> Put(mc, file_path, fresh.new_module)]

\* detect_changes
detect_changes(file_path, hc, mc) ==
    IF ~Exists(file_path)
    THEN DetectDeleted(file_path, hc, mc)
    ELSE DetectExisting(file_path, hc, mc)

RECURSIVE BatchFrom(_, _, _, _)
\* the loop of detect_changes_batch
BatchFrom(file_paths, combined, hc, mc) ==
    IF file_paths = <<>>
    THEN [changes |-> combined, hash_cache |-> hc, module_cache |-> mc]
    ELSE LET r == detect_changes(Head(file_paths), hc, mc)
         IN  BatchFrom(Tail(file_paths), merge(combined, r.changes),
                       r.hash_cache, r.module_cache)

\* detect_changes_batch
detect_changes_batch(file_paths, hc, mc) == BatchFrom(file_paths, EmptyChangeSet, hc, mc)

RECURSIVE InitializeFrom(_, _, _)
\* the loop of initialize_from_modules
InitializeFrom(modules, hc, mc) ==
    IF modules = <<>>
    THEN [hash_cache |-> hc, module_cache |-> mc]
    ELSE LET module == Head(modules)
         IN  InitializeFrom(Tail(modules),
                            Put(hc, module.path, hash_tree(module)),
                            Put(mc, module.path, HashTreeWrite(module)))

\* name.startswith(existing + ".")
StartsWithDot(name, existing) ==
    Len(name) > Len(existing) /\ SubSeq(name, 1, Len(existing)) = existing

\* propagate_hash_changes: the paths whose modules it recalculates
AffectedPaths(cs, hc) ==
    {file_path \in DOMAIN hc :
        \E name \in cs.modified_nodes \cup cs.added_nodes \cup cs.removed_nodes :
            \/ name \in DOMAIN hc[file_path]
            \/ \E existing \in DOMAIN hc[file_path] : StartsWithDot(name, existing)}

\* propagate_hash_changes as it would be if it fingerprinted a fresh record of
\* the path in place of the cached module
PropagatedHashCache_of_fresh_record(cs, hc, mc) ==
    [file_path \in DOMAIN hc |->
        IF file_path \in AffectedPaths(cs, hc) /\ file_path \in DOMAIN mc
        THEN hash_tree(EmptyModule(file_path)) ELSE hc[file_path]]

\* propagate_hash_changes: the hash cache it leaves
PropagatedHashCache(cs, hc, mc) ==
    [file_path \in DOMAIN hc |->
        IF file_path \in AffectedPaths(cs, hc) /\ file_path \in DOMAIN mc
        THEN hash_tree(mc[file_path]) ELSE hc[file_path]]

\* propagate_hash_changes: the module cache it leaves (hash_tree writes module.hash)
PropagatedModuleCache(cs, hc, mc) ==
    [file_path \in DOMAIN mc |->
        IF file_path \in AffectedPaths(cs, hc)
        THEN HashTreeWrite(mc[file_path]) ELSE mc[file_path]]

NoCall == [op |-> "init", paths |-> <<>>]

\* the sorted lists of distinct paths
DiscoveredLists ==
    {<<"a/m.py">>, <<"b/m.py">>, <<"a/m.py", "b/m.py">>}

\* the observer's record of a step: the operation, the paths given to it and the
\* change set it returned (the empty one for an operation that returns none)
Returned(cs, op, paths) ==
    /\ changes' = cs
    /\ call' = [op |-> op, paths |-> paths]

InitDetector ==
    /\ disk \in [Paths -> {Absent}]
    /\ hash_cache = EmptyDict
    /\ module_cache = EmptyDict
    /\ changes = EmptyChangeSet
    /\ call = NoCall

\* a file is created or rewritten
WriteFile ==
    \E file_path \in Paths, content \in DetectorSources :
        /\ disk[file_path] # File(content)
        /\ disk' = [disk EXCEPT ![file_path] = File(content)]
        /\ Returned(EmptyChangeSet, "filesystem", <<>>)
        /\ UNCHANGED <<hash_cache, module_cache>>
        /\ UNCHANGED <<snapshot_vars, compare_vars, parser_vars, service_vars>>

\* a file is deleted
DeleteFile ==
    \E file_path \in Paths :
        /\ Exists(file_path)
        /\ disk' = [disk EXCEPT ![file_path] = Absent]
        /\ Returned(EmptyChangeSet, "filesystem", <<>>)
        /\ UNCHANGED <<hash_cache, module_cache>>
        /\ UNCHANGED <<snapshot_vars, compare_vars, parser_vars, service_vars>>

\* a path stops being readable
LockFile ==
    \E file_path \in Paths :
        /\ disk[file_path] # Unreadable
        /\ disk' = [disk EXCEPT ![file_path] = Unreadable]
        /\ Returned(EmptyChangeSet, "filesystem", <<>>)
        /\ UNCHANGED <<hash_cache, module_cache>>
        /\ UNCHANGED <<snapshot_vars, compare_vars, parser_vars, service_vars>>

DetectChanges ==
    \E file_path \in Paths :
        LET r == detect_changes(file_path, hash_cache, module_cache)
        IN  /\ Returned(r.changes, "detect_changes", <<file_path>>)
            /\ hash_cache' = r.hash_cache
            /\ module_cache' = r.module_cache
            /\ UNCHANGED disk
            /\ UNCHANGED <<snapshot_vars, compare_vars, parser_vars, service_vars>>

DetectChangesBatch ==
    \E file_paths \in PathLists :
        LET r == detect_changes_batch(file_paths, hash_cache, module_cache)
        IN  /\ Returned(r.changes, "detect_changes_batch", file_paths)
            /\ hash_cache' = r.hash_cache
            /\ module_cache' = r.module_cache
            /\ UNCHANGED disk
            /\ UNCHANGED <<snapshot_vars, compare_vars, parser_vars, service_vars>>

\* initialize_from_modules(modules), the modules being those parse_file gave for
\* the files found on disk, each once, in sorted order (api/routes/graph.py: a
\* file whose parse raises is left out)
InitializeFromModules ==
    \E file_paths \in DiscoveredLists :
        /\ \A i \in 1..Len(file_paths) :
               Exists(file_paths[i]) /\ ~ParseFileRaises(file_paths[i])
        /\ LET r == InitializeFrom([i \in 1..Len(file_paths) |-> parse_file(file_paths[i])],
                                   hash_cache, module_cache)
           IN  /\ hash_cache' = r.hash_cache
               /\ module_cache' = r.module_cache
        /\ Returned(EmptyChangeSet, "initialize_from_modules", <<>>)
        /\ UNCHANGED disk
        /\ UNCHANGED <<snapshot_vars, compare_vars, parser_vars, service_vars>>

RemoveFile ==
    \E file_path \in Paths :
        /\ hash_cache' = Pop(hash_cache, file_path)
        /\ module_cache' = Pop(module_cache, file_path)
        /\ Returned(EmptyChangeSet, "remove_file", <<>>)
        /\ UNCHANGED disk
        /\ UNCHANGED <<snapshot_vars, compare_vars, parser_vars, service_vars>>

ClearCache ==
    /\ hash_cache' = EmptyDict
    /\ module_cache' = EmptyDict
    /\ Returned(EmptyChangeSet, "clear_cache", <<>>)
    /\ UNCHANGED disk
    /\ UNCHANGED <<snapshot_vars, compare_vars, parser_vars, service_vars>>

\* changes = detect_changes...(...); propagate_hash_changes(changes)
PropagateHashChanges ==
    /\ call.op \in {"detect_changes", "detect_changes_batch"}
    /\ hash_cache' = PropagatedHashCache(changes, hash_cache, module_cache)
    /\ module_cache' = PropagatedModuleCache(changes, hash_cache, module_cache)
    /\ Returned(EmptyChangeSet, "propagate_hash_changes", <<>>)
    /\ UNCHANGED disk
    /\ UNCHANGED <<snapshot_vars, compare_vars, parser_vars, service_vars>>

NextDetector ==
    \/ WriteFile
    \/ DeleteFile
    \/ LockFile
    \/ DetectChanges
    \/ DetectChangesBatch
    \/ InitializeFromModules
    \/ RemoveFile
    \/ ClearCache
    \/ PropagateHashChanges

IdleDetector ==
    /\ disk = [file_path \in Paths |-> Absent]
    /\ hash_cache = EmptyDict
    /\ module_cache = EmptyDict
    /\ changes = EmptyChangeSet
    /\ call = NoCall

-----------------------------------------------------------------------------
(* Relative imports: ProjectParser._resolve_relative_import and            *)
(* RelationshipExtractor._resolve_relative_import.  A dotted name is the   *)
(* sequence of its segments; "" is <<>>.                                   *)

\* ProjectParser._resolve_relative_import with one segment too few in the base
resolve_relative_import_one_short(current_package, module_name, relative_level) ==
    IF current_package = <<>> THEN module_name
    ELSE IF relative_level > Len(current_package) THEN module_name
    ELSE SubSeq(current_package, 1, Len(current_package) - relative_level) \o module_name

\* ProjectParser._resolve_relative_import
resolve_relative_import(current_package, module_name, relative_level) ==
    IF current_package = <<>> THEN module_name
    ELSE LET parts == current_package
         IN  IF relative_level > Len(parts) THEN module_name
             ELSE LET \* parts[:stop]: a stop beyond the end takes the whole list
                      stop == Len(parts) - relative_level + 1
                      base == SubSeq(parts, 1, IF stop > Len(parts) THEN Len(parts) ELSE stop)
                  IN  IF module_name # <<>> THEN base \o module_name ELSE base

\* RelationshipExtractor._resolve_relative_import
extractor_resolve_relative_import(current_package, module_name, relative_level) ==
    IF current_package = <<>> THEN module_name
    ELSE LET parts == current_package
         IN  IF relative_level > Len(parts) THEN module_name
             ELSE LET \* parts[:stop]: a stop beyond the end takes the whole list
                      stop == Len(parts) - relative_level + 1
                      base_parts == SubSeq(parts, 1,
                                           IF stop > Len(parts) THEN Len(parts) ELSE stop)
                  IN  IF module_name # <<>> THEN base_parts \o module_name ELSE base_parts

\* the greatest number of segments of a package, and of dots of an import
MaxSegments == 3
MaxLevel == 4

\* the arguments of one call: the package of the importing module, the module
\* written after the dots, the number of dots (0: the import is not relative)
RelativeImports ==
    {[current_package |-> p, module_name |-> m, relative_level |-> l,
      by_parser |-> <<>>, by_extractor |-> <<>>, resolved |-> FALSE] :
        p \in UNION {[1..n -> {"a", "b"}] : n \in 0..MaxSegments},
        m \in {<<>>, <<"x">>, <<"x", "y">>},
        l \in 0..MaxLevel}

NoRelative ==
    [current_package |-> <<>>, module_name |-> <<>>, relative_level |-> 0,
     by_parser |-> <<>>, by_extractor |-> <<>>, resolved |-> FALSE]

\* both resolvers are called on the arguments
ResolveRelativeImport ==
    /\ ~relative_import.resolved
    /\ relative_import' =
          [relative_import EXCEPT
              !.by_parser = resolve_relative_import(relative_import.current_package,
                                relative_import.module_name, relative_import.relative_level),
              !.by_extractor = extractor_resolve_relative_import(relative_import.current_package,
                                   relative_import.module_name, relative_import.relative_level),
              !.resolved = TRUE]
    /\ UNCHANGED <<detector_vars, snapshot_vars, compare_vars, project_vars, service_vars>>

-----------------------------------------------------------------------------
(* ProjectParser (parser/project_parser.py).  A relative path is the       *)
(* sequence of its segments, the root directory is <<>>; an ID             *)
(* "a/m.py::C::f" is the path followed by the tokens "::", "C", "::", "f". *)
(* The parser's fields travel as one record `self` through the passes.     *)

\* the name of the project root directory (self.root.name)
RootName == "proj"

\* the *.py files a project may hold, in the order sorted() gives Paths
ProjectPaths ==
    << <<"__init__.py">>, <<"a", "__init__.py">>, <<"a", "b", "c", "__init__.py">>,
       <<"a", "m.py">>, <<"m.py">> >>

\* a call whose function is the attribute parts[1].parts[2]...
AttributeCall(parts) ==
    [type |-> "expression_statement", expr |-> [type |-> "call", function |-> parts]]

\* the contents of the modules of a project
ProjectSources ==
    { \* def f(): g()  /  def f(): return 1
      <<FunctionDef("f", <<>>, <<>>, <<CallStmt("g")>>), SrcF>>,
      \* class C(B): x = 1; def f(self): f(); self.f(); C()  /  def f(): return 1
      <<ClassDef("C", <<[type |-> "identifier", text |-> "B"]>>,
                 <<SrcX, FunctionDef("f", <<>>, <<>>,
                                     <<CallStmt("f"), AttributeCall(<<"self", "f">>),
                                       CallStmt("C")>>)>>),
        SrcF>>,
      \* class C: class N: def m(self): m()
      <<ClassDef("C", <<>>,
                 <<ClassDef("N", <<>>, <<FunctionDef("m", <<>>, <<>>, <<CallStmt("m")>>)>>)>>)>>,
      \* import a.m  /  from a.m import C as D, f as g  /  from . import m  /  x = 1
      \* class E(D): pass  /  def h(): D(); m.C(); f(); m(); g()
      <<[type |-> "import_statement", children |-> <<DottedName(<<"a", "m">>)>>],
        [type |-> "import_from_statement",
         children |-> <<DottedName(<<"a", "m">>), AliasedImport(<<"C">>, "D"),
                        AliasedImport(<<"f">>, "g")>>],
        [type |-> "import_from_statement",
         children |-> <<[type |-> "relative_import", level |-> 1, module |-> <<>>],
                        DottedName(<<"m">>)>>],
        SrcX,
        ClassDef("E", <<[type |-> "identifier", text |-> "D"]>>, <<>>),
        FunctionDef("h", <<>>, <<>>,
                    <<CallStmt("D"), AttributeCall(<<"m", "C">>), CallStmt("f"),
                      CallStmt("m"), CallStmt("g")>>)>> }

\* the projects of the model: a marker file is missing, unreadable or empty, a
\* module is missing, unreadable, or holds one of the contents
Projects ==
    {p \in [{ProjectPaths[i] : i \in 1..Len(ProjectPaths)} ->
                {Absent, Unreadable} \cup {File(src) : src \in ProjectSources \cup {<<>>}}] :
        \A i \in 1..Len(ProjectPaths) :
            LET path == ProjectPaths[i]
            IN  IF path[Len(path)] = "__init__.py"
                THEN p[path] \in {Absent, Unreadable, File(<<>>)}
                ELSE p[path] # File(<<>>)}

\* _discover_files: sorted(rglob("*.py"))
discover_files(tree) ==
    SelectSeq(ProjectPaths, LAMBDA path : tree[path].kind # "absent")

\* _get_relative_path of a directory: str(Path) of the root itself is "."
RelativePath(dir) == IF dir = <<>> THEN <<".">> ELSE dir

\* file_path.parent
Parent(path) == SubSeq(path, 1, Len(path) - 1)

\* _path_to_module_name
path_to_module_name(file_path) ==
    LET name == file_path[Len(file_path)]
        stem == CASE name = "__init__.py" -> "__init__"
                  [] name = "m.py" -> "m"
        all == Append(Parent(file_path), stem)
        parts == IF stem = "__init__"
                 THEN (IF Parent(file_path) = <<>> THEN <<"__init__">> ELSE Parent(file_path))
                 ELSE all
    IN  [module_name |-> parts[Len(parts)], package |-> Parent(parts)]

\* SymbolEntry(id, name, kind, qualified_name, parent_id, location); a location
\* is the position of the node in its file, <<>> where the code gives none
SymbolEntry(id, name, kind, qualified_name, parent_id, location) ==
    [id |-> id, name |-> name, kind |-> kind, qualified_name |-> qualified_name,
     parent_id |-> parent_id, location |-> location]

RECURSIVE pass0_from(_, _)
\* _pass0_packages: the loop over sorted_dirs
pass0_from(self, sorted_dirs) ==
    IF sorted_dirs = <<>> THEN self
    ELSE
        LET pkg_dir == Head(sorted_dirs)
            rel_path == RelativePath(pkg_dir)
            pkg_name == IF pkg_dir = <<>> THEN RootName ELSE pkg_dir[Len(pkg_dir)]
            qualified_name == IF rel_path = <<".">> THEN <<pkg_name>> ELSE rel_path
            package_map == {self.packages[i].path : i \in 1..Len(self.packages)}
            \* parent_dir >= self.root fails only for the parent of the root
            parent_id == IF pkg_dir # <<>> /\ RelativePath(Parent(pkg_dir)) \in package_map
                         THEN RelativePath(Parent(pkg_dir))
                         ELSE <<>>
            package == [id |-> IF rel_path # <<".">> THEN rel_path ELSE <<pkg_name>>,
                        path |-> rel_path, name |-> pkg_name,
                        qualified_name |-> qualified_name, parent_id |-> parent_id,
                        child_packages |-> <<>>, child_modules |-> <<>>]
            registered == Append(self.packages, package)
        IN  pass0_from(
                [self EXCEPT
                    !.packages = [i \in 1..Len(registered) |->
                                     IF parent_id # <<>> /\ registered[i].path = parent_id
                                     THEN [registered[i] EXCEPT
                                              !.child_packages = Append(@, package.id)]
                                     ELSE registered[i]],
                    !.symbols = Put(@, package.id,
                                    SymbolEntry(package.id, pkg_name, "package",
                                                qualified_name, <<>>, <<>>)),
                    !.qualified_to_id = Put(@, qualified_name, package.id)],
                Tail(sorted_dirs))

\* _pass0_packages.  package_dirs holds the parents of the __init__.py files; an
\* ancestor with a marker file is the parent of a discovered file already.
\* sorted() by depth: no two package directories of the model have one depth.
pass0_packages(self, files) ==
    LET markers == SelectSeq(files, LAMBDA f : f[Len(f)] = "__init__.py")
        package_dirs == [i \in 1..Len(markers) |-> Parent(markers[i])]
    IN  pass0_from(self, SortSeq(package_dirs, LAMBDA x, y : Len(x) < Len(y)))

RECURSIVE pass1_discovery(_, _)
\* _pass1_discovery
pass1_discovery(self, files) ==
    IF files = <<>> THEN self
    ELSE
        LET file_path == Head(files)
            file_id == file_path
            named == path_to_module_name(file_path)
            qualified_name == Append(named.package, named.module_name)
            parent_rel == RelativePath(Parent(file_path))
        IN  pass1_discovery(
                [self EXCEPT
                    !.symbols = Put(@, file_id,
                                    SymbolEntry(file_id, named.module_name, "module",
                                                qualified_name, <<>>, <<>>)),
                    !.qualified_to_id = Put(@, qualified_name, file_id),
                    !.packages = [i \in 1..Len(@) |->
                                     IF @[i].path = parent_rel
                                        /\ file_path[Len(file_path)] # "__init__.py"
                                     THEN [@[i] EXCEPT !.child_modules = Append(@, file_id)]
                                     ELSE @[i]]],
                Tail(files))

\* parent_class is None
NoClass == [id |-> <<>>, name |-> "", qualified_name |-> <<>>]

RECURSIVE extract_from_block(_, _, _, _, _)
\* _extract_from_block with _process_definition, _parse_function, _parse_class
\* and _parse_variable: what a block adds, which is the classes appended to
\* module.classes, the functions appended to module.functions or to the methods
\* of the enclosing class, the variables of the module or of the class, and the
\* SymbolEntry registrations in order.  parent_qualified is
\* parent_class.qualified_name in a class body and "" at module level; `at` is
\* the position of the block.
extract_from_block(children, file_id, module_qualified, parent_class, at) ==
    LET NoDefinitions == [classes |-> <<>>, functions |-> <<>>, variables |-> <<>>,
                          entries |-> <<>>]
        parent_qualified == parent_class.qualified_name
        \* f"{file_id}::{name}" if not parent_qualified
        \* else f"{file_id}::{parent_qualified.split('.')[-1]}::{name}"
        Id(name) == IF parent_qualified = <<>> THEN file_id \o <<"::", name>>
                    ELSE file_id \o <<"::", parent_qualified[Len(parent_qualified)],
                                      "::", name>>
        Child(i) ==
            LET child == children[i]
                node == DefinitionNode(child)
                location == Append(at, i)
            IN  CASE DefinitionKind(child) = "function_definition" ->
                        LET is_method == parent_class # NoClass
                            func == [id |-> Id(node.name), name |-> node.name,
                                     qualified_name |-> Append(parent_qualified, node.name),
                                     is_method |-> is_method,
                                     calls |-> extract_function_calls(node.body),
                                     location |-> location]
                        IN  [NoDefinitions EXCEPT
                                !.functions = <<func>>,
                                !.entries = <<SymbolEntry(func.id, func.name,
                                                IF is_method THEN "method" ELSE "function",
                                                func.qualified_name,
                                                IF is_method THEN parent_class.id ELSE file_id,
                                                location)>>]
                  [] DefinitionKind(child) = "class_definition" ->
                        LET qualified_name == Append(module_qualified, node.name)
                            class_id == file_id \o <<"::", node.name>>
                            body == extract_from_block(node.body, file_id, module_qualified,
                                        [id |-> class_id, name |-> node.name,
                                         qualified_name |-> qualified_name], location)
                            cls == [id |-> class_id, name |-> node.name,
                                    qualified_name |-> qualified_name,
                                    bases |-> parse_class_bases(node.bases),
                                    methods |-> body.functions,
                                    class_variables |-> body.variables,
                                    location |-> location]
                        IN  [NoDefinitions EXCEPT
                                !.classes = Append(body.classes, cls),
                                !.entries = Append(body.entries,
                                                SymbolEntry(class_id, node.name, "class",
                                                            qualified_name, file_id, location))]
                  [] IsAssignmentTo(child, "identifier") ->
                        LET name == child.expr.left.text
                            var == [id |-> Id(name), name |-> name, location |-> location]
                        IN  [NoDefinitions EXCEPT
                                !.variables = <<var>>,
                                !.entries = <<SymbolEntry(var.id, name, "variable",
                                                Append(parent_qualified, name), file_id,
                                                location)>>]
                  [] OTHER -> NoDefinitions
        each == [i \in 1..Len(children) |-> Child(i)]
    IN  [classes |-> Flatten([i \in 1..Len(children) |-> each[i].classes]),
         functions |-> Flatten([i \in 1..Len(children) |-> each[i].functions]),
         variables |-> Flatten([i \in 1..Len(children) |-> each[i].variables]),
         entries |-> Flatten([i \in 1..Len(children) |-> each[i].entries])]

\* ImportEntry(alias, qualified_name, target_id, imported_names) under its key
ImportEntry(alias, qualified_name, imported_names) ==
    <<alias, [alias |-> alias, qualified_name |-> qualified_name, target_id |-> <<>>,
              imported_names |-> imported_names]>>

\* _parse_import_statement: the ImportInfo records and the file_imports assignments
parse_import_statement(node) ==
    LET c == SelectSeq(node.children,
                       LAMBDA n : n.type = "dotted_name"
                                  \/ (n.type = "aliased_import" /\ n.alias # ""))
        ModuleName(n) == IF n.type = "dotted_name" THEN n.text ELSE n.name
    IN  [imports |-> [i \in 1..Len(c) |->
                         [module_name |-> ModuleName(c[i]), imported_names |-> <<>>,
                          is_relative |-> FALSE, resolved_module |-> <<>>]],
         aliases |-> [i \in 1..Len(c) |->
                         ImportEntry(IF c[i].type = "dotted_name"
                                     THEN <<c[i].text[Len(c[i].text)]>>
                                     ELSE <<c[i].alias>>,
                                     ModuleName(c[i]), <<>>)]]

\* _parse_from_import.  The first loop assigns module_name from every
\* dotted_name child, the imported names (children after the first) included.
parse_from_import_statement(node, package) ==
    LET c == node.children
        names_module == {i \in 1..Len(c) :
                            \/ c[i].type = "dotted_name"
                            \/ (c[i].type = "relative_import" /\ c[i].module # <<>>)}
        module_name == IF names_module = {} THEN <<>>
                       ELSE LET n == c[CHOOSE i \in names_module :
                                          \A j \in names_module : j <= i]
                            IN  IF n.type = "dotted_name" THEN n.text ELSE n.module
        relative == {i \in 1..Len(c) : c[i].type = "relative_import"}
        relative_level == IF relative = {} THEN 0
                          ELSE c[CHOOSE i \in relative : \A j \in relative : j <= i].level
        \* a dotted_name whose previous sibling is "import" or ","
        named == {i \in 1..Len(c) : \/ (c[i].type = "dotted_name" /\ i > 1)
                                    \/ c[i].type = "aliased_import"}
        listed == SelectSeq([i \in 1..Len(c) |-> IF i \in named THEN c[i] ELSE [type |-> ""]],
                            LAMBDA n : n.type # "")
        Name(n) == IF n.type = "dotted_name" THEN n.text ELSE n.name
        wildcards == SelectSeq(c, LAMBDA n : n.type = "wildcard_import")
        imported_names == [i \in 1..Len(listed) |-> Name(listed[i])]
                          \o [i \in 1..Len(wildcards) |-> <<"*">>]
        with_alias == SelectSeq(c, LAMBDA n : n.type = "aliased_import" /\ n.alias # "")
        aliases == DictOf([i \in 1..Len(with_alias) |->
                              <<with_alias[i].name, <<with_alias[i].alias>> >>])
        resolved_module == IF relative_level > 0
                           THEN resolve_relative_import(package, module_name, relative_level)
                           ELSE module_name
    IN  [imports |-> <<[module_name |-> module_name, imported_names |-> imported_names,
                        is_relative |-> relative_level > 0,
                        resolved_module |-> resolved_module]>>,
         aliases |-> [i \in 1..Len(imported_names) |->
                         LET name == imported_names[i]
                         IN  ImportEntry(IF name \in DOMAIN aliases THEN aliases[name] ELSE name,
                                         resolved_module \o name, <<name>>)]]

\* _parse_file after read_bytes: the ModuleInfo is built and appended, the
\* definitions are registered
parse_file_content(self, file_path, content) ==
    LET \* d after the assignments d[k] = other[k]
        Update(d, other) ==
            [k \in DOMAIN d \cup DOMAIN other |-> IF k \in DOMAIN other THEN other[k] ELSE d[k]]
        file_id == file_path
        named == path_to_module_name(file_path)
        import_nodes == SelectSeq(content, LAMBDA n : n.type \in {"import_statement",
                                                                  "import_from_statement"})
        imported == [i \in 1..Len(import_nodes) |->
                        IF import_nodes[i].type = "import_statement"
                        THEN parse_import_statement(import_nodes[i])
                        ELSE parse_from_import_statement(import_nodes[i], named.package)]
        aliases == Flatten([i \in 1..Len(imported) |-> imported[i].aliases])
        defined == extract_from_block(content, file_id,
                                      Append(named.package, named.module_name), NoClass, <<>>)
        indexed == SelectSeq(defined.entries, LAMBDA e : e.kind # "variable")
        module == [id |-> file_id, name |-> named.module_name, package |-> named.package,
                   imports |-> Flatten([i \in 1..Len(imported) |-> imported[i].imports]),
                   classes |-> defined.classes, functions |-> defined.functions,
                   variables |-> defined.variables]
    IN  [self EXCEPT
            !.file_imports =
                IF aliases = <<>> THEN @
                ELSE Put(@, file_id,
                         Update(IF file_id \in DOMAIN @ THEN @[file_id] ELSE EmptyDict,
                                DictOf(aliases))),
            !.symbols = Update(@, DictOf([i \in 1..Len(defined.entries) |->
                                             <<defined.entries[i].id, defined.entries[i]>>])),
            !.qualified_to_id =
                Update(@, DictOf([i \in 1..Len(indexed) |->
                                     <<indexed[i].qualified_name, indexed[i].id>>])),
            !.modules = Append(@, module)]

\* Relationship(source_id, target_id, relationship_type, properties): of the
\* properties the name the edge was resolved from (call_name, base_name, symbol_name)
Relationship(source_id, target_id, relationship_type, name) ==
    [source_id |-> source_id, target_id |-> target_id,
     relationship_type |-> relationship_type, name |-> name]

\* _create_package_relationships
create_package_relationships(self) ==
    Flatten([p \in 1..Len(self.packages) |->
        LET package == self.packages[p]
        IN  [i \in 1..Len(package.child_packages) |->
                Relationship(package.id, package.child_packages[i], "CONTAINS", <<>>)]
            \o [i \in 1..Len(package.child_modules) |->
                   Relationship(package.id, package.child_modules[i], "CONTAINS", <<>>)]])

\* _create_contains_relationships; all_variables of a class are its class
\* variables, the parser collects no instance variables
create_contains_relationships(module, file_id) ==
    Flatten([c \in 1..Len(module.classes) |->
        LET cls == module.classes[c]
        IN  <<Relationship(file_id, cls.id, "CONTAINS", <<>>)>>
            \o [i \in 1..Len(cls.methods) |->
                   Relationship(cls.id, cls.methods[i].id, "CONTAINS", <<>>)]
            \o [i \in 1..Len(cls.class_variables) |->
                   Relationship(cls.id, cls.class_variables[i].id, "DEFINES", <<>>)]])
    \o [i \in 1..Len(module.functions) |->
           Relationship(file_id, module.functions[i].id, "CONTAINS", <<>>)]
    \o [i \in 1..Len(module.variables) |->
           Relationship(file_id, module.variables[i].id, "DEFINES", <<>>)]

\* _resolve_imports: the IMPORTS edges of a module and its file_imports entries
\* after the target ids were written
resolve_imports(self, module, file_id) ==
    LET TargetModule(imp) == IF imp.resolved_module # <<>> THEN imp.resolved_module
                             ELSE imp.module_name
        found == SelectSeq(module.imports,
                           LAMBDA imp : TargetModule(imp) \in DOMAIN self.qualified_to_id)
        entries == IF file_id \in DOMAIN self.file_imports THEN self.file_imports[file_id]
                   ELSE EmptyDict
        Edges(imp) ==
            LET target_module == TargetModule(imp)
                names == SelectSeq(imp.imported_names,
                                   LAMBDA name : /\ name # <<"*">>
                                                 /\ target_module \o name
                                                        \in DOMAIN self.qualified_to_id)
            IN  <<Relationship(file_id, self.qualified_to_id[target_module], "IMPORTS", <<>>)>>
                \o [i \in 1..Len(names) |->
                       Relationship(file_id, self.qualified_to_id[target_module \o names[i]],
                                    "IMPORTS", names[i])]
        \* str.startswith on dotted names none of whose segments begins another one
        StartsWith(qualified_name, prefix) ==
            /\ Len(prefix) <= Len(qualified_name)
            /\ SubSeq(qualified_name, 1, Len(prefix)) = prefix
        \* the last import that matches an entry writes its target_id
        Target(entry) ==
            LET writers == {i \in 1..Len(found) :
                               StartsWith(entry.qualified_name, TargetModule(found[i]))}
            IN  IF writers = {} THEN entry.target_id
                ELSE self.qualified_to_id[
                         TargetModule(found[CHOOSE i \in writers : \A j \in writers : j <= i])]
    IN  [relationships |-> Flatten([i \in 1..Len(found) |-> Edges(found[i])]),
         imports |-> [alias \in DOMAIN entries |->
                         [entries[alias] EXCEPT !.target_id = Target(entries[alias])]]]

\* _resolve_symbol whose class-scope rule does not look the ID up
resolve_symbol_unchecked(self, name, file_id, imports, parent_class) ==
    LET parts == name
        first_part == <<parts[1]>>
        rest == Tail(parts)
        \* import_entry.qualified_name.rsplit('.', 1)[0]
        Stripped(q) == IF Len(q) > 1 THEN SubSeq(q, 1, Len(q) - 1) ELSE q
        full_qualified ==
            IF imports[first_part].imported_names # <<>>
            THEN Stripped(imports[first_part].qualified_name) \o rest
            ELSE imports[first_part].qualified_name \o rest
        receiver_id == file_id \o <<"::", parent_class.name, "::", parts[2]>>
        method_id == file_id \o <<"::", parent_class.name, "::">> \o name
        func_id == file_id \o <<"::">> \o name
        symbol_id == imports[name].target_id \o <<"::">> \o name
    IN  IF Len(parts) > 1 /\ first_part \in DOMAIN imports
           /\ full_qualified \in DOMAIN self.qualified_to_id
        THEN self.qualified_to_id[full_qualified]
        ELSE IF Len(parts) > 1 /\ first_part \in {<<"self">>, <<"cls">>}
                /\ parent_class # NoClass /\ receiver_id \in DOMAIN self.symbols
        THEN receiver_id
        ELSE IF parent_class # NoClass
        THEN method_id
        ELSE IF func_id \in DOMAIN self.symbols
        THEN func_id
        ELSE IF name \in DOMAIN imports
                /\ imports[name].qualified_name \in DOMAIN self.qualified_to_id
        THEN self.qualified_to_id[imports[name].qualified_name]
        ELSE IF name \in DOMAIN imports /\ imports[name].target_id # <<>>
                /\ symbol_id \in DOMAIN self.symbols
        THEN symbol_id
        ELSE IF name \in DOMAIN self.qualified_to_id
        THEN self.qualified_to_id[name]
        ELSE <<>>

\* _resolve_symbol with the module scope before the class scope
resolve_symbol_module_first(self, name, file_id, imports, parent_class) ==
    LET parts == name
        first_part == <<parts[1]>>
        rest == Tail(parts)
        \* import_entry.qualified_name.rsplit('.', 1)[0]
        Stripped(q) == IF Len(q) > 1 THEN SubSeq(q, 1, Len(q) - 1) ELSE q
        full_qualified ==
            IF imports[first_part].imported_names # <<>>
            THEN Stripped(imports[first_part].qualified_name) \o rest
            ELSE imports[first_part].qualified_name \o rest
        receiver_id == file_id \o <<"::", parent_class.name, "::", parts[2]>>
        method_id == file_id \o <<"::", parent_class.name, "::">> \o name
        func_id == file_id \o <<"::">> \o name
        symbol_id == imports[name].target_id \o <<"::">> \o name
    IN  IF Len(parts) > 1 /\ first_part \in DOMAIN imports
           /\ full_qualified \in DOMAIN self.qualified_to_id
        THEN self.qualified_to_id[full_qualified]
        ELSE IF Len(parts) > 1 /\ first_part \in {<<"self">>, <<"cls">>}
                /\ parent_class # NoClass /\ receiver_id \in DOMAIN self.symbols
        THEN receiver_id
        ELSE IF func_id \in DOMAIN self.symbols
        THEN func_id
        ELSE IF parent_class # NoClass /\ method_id \in DOMAIN self.symbols
        THEN method_id
        ELSE IF name \in DOMAIN imports
                /\ imports[name].qualified_name \in DOMAIN self.qualified_to_id
        THEN self.qualified_to_id[imports[name].qualified_name]
        ELSE IF name \in DOMAIN imports /\ imports[name].target_id # <<>>
                /\ symbol_id \in DOMAIN self.symbols
        THEN symbol_id
        ELSE IF name \in DOMAIN self.qualified_to_id
        THEN self.qualified_to_id[name]
        ELSE <<>>

\* _resolve_symbol: the ID the name resolves to, <<>> for None.  The name is
\* the sequence of its dotted parts.
resolve_symbol(self, name, file_id, imports, parent_class) ==
    LET parts == name
        first_part == <<parts[1]>>
        rest == Tail(parts)
        \* import_entry.qualified_name.rsplit('.', 1)[0]
        Stripped(q) == IF Len(q) > 1 THEN SubSeq(q, 1, Len(q) - 1) ELSE q
        full_qualified ==
            IF imports[first_part].imported_names # <<>>
            THEN Stripped(imports[first_part].qualified_name) \o rest
            ELSE imports[first_part].qualified_name \o rest
        receiver_id == file_id \o <<"::", parent_class.name, "::", parts[2]>>
        method_id == file_id \o <<"::", parent_class.name, "::">> \o name
        func_id == file_id \o <<"::">> \o name
        symbol_id == imports[name].target_id \o <<"::">> \o name
    IN  IF Len(parts) > 1 /\ first_part \in DOMAIN imports
           /\ full_qualified \in DOMAIN self.qualified_to_id
        THEN self.qualified_to_id[full_qualified]
        ELSE IF Len(parts) > 1 /\ first_part \in {<<"self">>, <<"cls">>}
                /\ parent_class # NoClass /\ receiver_id \in DOMAIN self.symbols
        THEN receiver_id
        ELSE IF parent_class # NoClass /\ method_id \in DOMAIN self.symbols
        THEN method_id
        ELSE IF func_id \in DOMAIN self.symbols
        THEN func_id
        ELSE IF name \in DOMAIN imports
                /\ imports[name].qualified_name \in DOMAIN self.qualified_to_id
        THEN self.qualified_to_id[imports[name].qualified_name]
        ELSE IF name \in DOMAIN imports /\ imports[name].target_id # <<>>
                /\ symbol_id \in DOMAIN self.symbols
        THEN symbol_id
        ELSE IF name \in DOMAIN self.qualified_to_id
        THEN self.qualified_to_id[name]
        ELSE <<>>

\* _resolve_function_calls: a CALLS edge for every call name that resolves
resolve_function_calls(self, func, file_id, imports, parent_class) ==
    LET resolved == SelectSeq(func.calls,
                        LAMBDA call_name :
                            resolve_symbol(self, call_name, file_id, imports,
                                           parent_class) # <<>>)
    IN  [i \in 1..Len(resolved) |->
            Relationship(func.id,
                         resolve_symbol(self, resolved[i], file_id, imports, parent_class),
                         "CALLS", resolved[i])]

\* the body of the loop of _pass3_linker: _create_contains_relationships,
\* _resolve_imports, _resolve_calls and _resolve_inheritance of one module give
\* its relationships and its file_imports entries
link_module(self, module) ==
    LET file_id == module.id
        imported == resolve_imports(self, module, file_id)
        imports == imported.imports
        calls ==
            Flatten([i \in 1..Len(module.functions) |->
                        resolve_function_calls(self, module.functions[i], file_id, imports,
                                               NoClass)])
            \o Flatten([c \in 1..Len(module.classes) |->
                   LET cls == module.classes[c]
                   IN  Flatten([i \in 1..Len(cls.methods) |->
                                   resolve_function_calls(self, cls.methods[i], file_id,
                                       imports,
                                       [id |-> cls.id, name |-> cls.name,
                                        qualified_name |-> cls.qualified_name])])])
        inherits ==
            Flatten([c \in 1..Len(module.classes) |->
                LET cls == module.classes[c]
                    bases == SelectSeq(cls.bases,
                                 LAMBDA base : resolve_symbol(self, base, file_id, imports,
                                                              NoClass) # <<>>)
                IN  [i \in 1..Len(bases) |->
                        Relationship(cls.id,
                                     resolve_symbol(self, bases[i], file_id, imports, NoClass),
                                     "INHERITS", bases[i])]])
    IN  [relationships |-> create_contains_relationships(module, file_id)
                           \o imported.relationships \o calls \o inherits,
         imports |-> imports]

\* _pass3_linker.  Linking a module reads the symbol table and the index, which
\* Pass 3 does not write, and writes the file_imports of that module only.
pass3_linker(self) ==
    LET linked == [k \in 1..Len(self.modules) |-> link_module(self, self.modules[k])]
    IN  [self EXCEPT
            !.relationships = @ \o create_package_relationships(self)
                                \o Flatten([k \in 1..Len(linked) |->
                                               linked[k].relationships]),
            !.file_imports =
                [file_id \in DOMAIN @ |->
                    IF \E k \in 1..Len(linked) : self.modules[k].id = file_id
                    THEN linked[CHOOSE k \in 1..Len(linked) :
                                    self.modules[k].id = file_id].imports
                    ELSE @[file_id]]]

\* the fields of the parser
Self ==
    [packages |-> packages, symbols |-> symbols, qualified_to_id |-> qualified_to_id,
     file_imports |-> file_imports, modules |-> module_infos,
     relationships |-> relationships, errors |-> errors]

\* the fields of the parser become those of `self`, the pass `pass` is next
Becomes(self, pass, done) ==
    /\ packages' = self.packages
    /\ symbols' = self.symbols
    /\ qualified_to_id' = self.qualified_to_id
    /\ file_imports' = self.file_imports
    /\ module_infos' = self.modules
    /\ relationships' = self.relationships
    /\ errors' = self.errors
    /\ progress' = [pass |-> pass, done |-> done]
    /\ UNCHANGED project
    /\ UNCHANGED <<detector_vars, snapshot_vars, compare_vars, relative_import, service_vars>>

\* ProjectParser(root): nothing is parsed yet
NewParser ==
    /\ progress = [pass |-> 0, done |-> 0]
    /\ packages = <<>>
    /\ symbols = EmptyDict
    /\ qualified_to_id = EmptyDict
    /\ file_imports = EmptyDict
    /\ module_infos = <<>>
    /\ relationships = <<>>
    /\ errors = <<>>

IdleProject ==
    /\ project = [path \in {ProjectPaths[i] : i \in 1..Len(ProjectPaths)} |-> Absent]
    /\ NewParser

\* parse_project on a root without Python files: returns [], [], []
ParseProjectEmpty ==
    /\ progress.pass = 0
    /\ discover_files(project) = <<>>
    /\ Becomes(Self, 4, 0)

\* parse_project: files = _discover_files(); _pass0_packages(files)
Pass0Packages ==
    /\ progress.pass = 0
    /\ discover_files(project) # <<>>
    /\ Becomes(pass0_packages(Self, discover_files(project)), 1, 0)

\* _pass1_discovery(files)
Pass1Discovery ==
    /\ progress.pass = 1
    /\ Becomes(pass1_discovery(Self, discover_files(project)), 2, 0)

\* _pass2_local_ast: _parse_file of the next file returns
ParseFile ==
    /\ progress.pass = 2
    /\ progress.done < Len(discover_files(project))
    /\ LET file_path == discover_files(project)[progress.done + 1]
       IN  /\ project[file_path].kind = "file"
           /\ Becomes(parse_file_content(Self, file_path, project[file_path].content),
                      2, progress.done + 1)

\* _pass2_local_ast: read_bytes of the next file raises, the error is recorded
ParseFileError ==
    /\ progress.pass = 2
    /\ progress.done < Len(discover_files(project))
    /\ LET file_path == discover_files(project)[progress.done + 1]
       IN  /\ project[file_path].kind = "unreadable"
           /\ Becomes([Self EXCEPT !.errors = Append(@, file_path)], 2, progress.done + 1)

\* _pass3_linker(), and parse_project returns
Pass3Linker ==
    /\ progress.pass = 2
    /\ progress.done = Len(discover_files(project))
    /\ Becomes(pass3_linker(Self), 4, 0)

NextProject ==
    \/ ParseProjectEmpty
    \/ Pass0Packages
    \/ Pass1Discovery
    \/ ParseFile
    \/ ParseFileError
    \/ Pass3Linker

-----------------------------------------------------------------------------
(* Debouncer (watcher/debouncer.py).  Every `with self._lock` block is one  *)
(* step.  A threading.Timer is a thread that waits for its interval, looks  *)
(* whether it was cancelled and, if not, calls _process_pending: cancel()   *)
(* stops a timer that still waits and has no effect on one that has looked. *)
(* _pending is a dict: the list of its items in insertion order.  What      *)
(* _process_pending and flush do after the locked block (the callback call, *)
(* the return) uses only the local list `changes` and is part of the step.  *)

DebouncedPaths == {"a/m.py", "b/m.py"}

\* change types FileWatcher passes to debounce()
ChangeTypes == {"modified", "deleted"}

\* the greatest number of Timer threads alive at a time
MaxTimers == 2

Timers == 1..MaxTimers

\* a Timer object nobody has started, or whose thread has ended
FreeTimer == "free"

\* self._pending[path] = PendingChange(path, change_type, ...) keeping the first
\* change type recorded for a path that is pending already
record_keeping_first(pending, path, change_type) ==
    IF \E i \in 1..Len(pending) : pending[i].path = path
    THEN pending
    ELSE Append(pending, [path |-> path, change_type |-> change_type])

\* self._pending[path] = PendingChange(path, change_type, ...): a key the dict
\* has keeps its place
record(pending, path, change_type) ==
    IF \E i \in 1..Len(pending) : pending[i].path = path
    THEN [i \in 1..Len(pending) |->
             IF pending[i].path = path
             THEN [path |-> path, change_type |-> change_type] ELSE pending[i]]
    ELSE Append(pending, [path |-> path, change_type |-> change_type])

\* if self._timer is not None: self._timer.cancel(); self._timer = None
cancel_timer(self) ==
    [self EXCEPT !.timer = 0,
                 !.timers = IF self.timer # 0 /\ self.timers[self.timer] = "waiting"
                            THEN [@ EXCEPT ![self.timer] = FreeTimer] ELSE @]

\* debounce(path, change_type); `started` is the Timer it creates and starts
debounce(self, path, change_type, started) ==
    LET cancelled == cancel_timer(self)
    IN  [cancelled EXCEPT !.pending = record(@, path, change_type),
                          !.timer = started,
                          !.timers[started] = "waiting"]

\* _process_pending in the thread of the Timer `running`, which ends with it:
\* what it leaves (the changes it hands over are self.pending before)
process_pending(self, running) ==
    IF self.pending = <<>>
    THEN [self EXCEPT !.timers[running] = FreeTimer]
    ELSE [self EXCEPT !.pending = <<>>, !.timer = 0, !.timers[running] = FreeTimer]

\* flush as it would be if it left _pending as it is
flush_keeping(self) == cancel_timer(self)

\* flush: what it leaves (the changes it returns are self.pending before)
flush(self) == [cancel_timer(self) EXCEPT !.pending = <<>>]

\* clear
clear(self) == [cancel_timer(self) EXCEPT !.pending = <<>>]

\* the paths of a list of changes
PathsOf(batch) == {batch[i].path : i \in 1..Len(batch)}

\* no batch
NoBatch == [by |-> "none", changes |-> <<>>, since |-> EmptyDict, latest |-> TRUE]

\* Debouncer(delay_ms, callback)
InitDebouncer ==
    /\ debouncer = [pending |-> <<>>, timer |-> 0, timers |-> [t \in Timers |-> FreeTimer]]
    /\ since_batch = EmptyDict
    /\ armed_last = 0
    /\ handed = NoBatch
    /\ awaited = {}
    /\ twice = FALSE

\* what the observer notes when a thread takes the changes `batch` out of
\* _pending and hands them over: the batch, who handed it, the debounce()
\* calls since the batch before it, and whether its paths were awaited
Handed(by, batch, latest) ==
    /\ handed' = [by |-> by, changes |-> batch, since |-> since_batch, latest |-> latest]
    /\ since_batch' = EmptyDict
    /\ awaited' = awaited \ PathsOf(batch)
    /\ twice' = (twice \/ ~(PathsOf(batch) \subseteq awaited))

\* debounce(path, change_type) is called
Debounce ==
    \E path \in DebouncedPaths, change_type \in ChangeTypes, started \in Timers :
        /\ cancel_timer(debouncer).timers[started] = "free"
        /\ debouncer' = debounce(debouncer, path, change_type, started)
        /\ since_batch' = Put(since_batch, path,
                              [change_type |-> change_type,
                               repeated |-> path \in DOMAIN since_batch])
        /\ armed_last' = started
        /\ awaited' = awaited \cup {path}
        /\ handed' = NoBatch
        /\ UNCHANGED twice
        /\ UNCHANGED <<detector_vars, snapshot_vars, compare_vars, parser_vars, client_vars, emitter>>

\* the interval of a Timer ends and it finds itself not cancelled
Expire(t) ==
    /\ debouncer.timers[t] = "waiting"
    /\ debouncer' = [debouncer EXCEPT !.timers[t] = "expired"]
    /\ handed' = NoBatch
    /\ UNCHANGED <<since_batch, armed_last, awaited, twice>>
    /\ UNCHANGED <<detector_vars, snapshot_vars, compare_vars, parser_vars, client_vars, emitter>>

\* the thread of an expired Timer gets the lock in _process_pending, and calls
\* self._callback(changes) if there are changes
ProcessPending(t) ==
    /\ debouncer.timers[t] = "expired"
    /\ debouncer' = process_pending(debouncer, t)
    /\ IF debouncer.pending # <<>>
       THEN Handed("timer", debouncer.pending, t = armed_last)
       ELSE handed' = NoBatch /\ UNCHANGED <<since_batch, awaited, twice>>
    /\ UNCHANGED armed_last
    /\ UNCHANGED <<detector_vars, snapshot_vars, compare_vars, parser_vars, client_vars, emitter>>

\* flush() is called: it calls self._callback(changes) if there are changes,
\* and returns them
Flush ==
    /\ debouncer' = flush(debouncer)
    /\ IF debouncer.pending # <<>>
       THEN Handed("flush", debouncer.pending, TRUE)
       ELSE handed' = NoBatch /\ UNCHANGED <<since_batch, awaited, twice>>
    /\ UNCHANGED armed_last
    /\ UNCHANGED <<detector_vars, snapshot_vars, compare_vars, parser_vars, client_vars, emitter>>

\* clear() is called
Clear ==
    /\ debouncer' = clear(debouncer)
    /\ awaited' = {}
    /\ handed' = NoBatch
    /\ UNCHANGED <<since_batch, armed_last, twice>>
    /\ UNCHANGED <<detector_vars, snapshot_vars, compare_vars, parser_vars, client_vars, emitter>>

NextDebouncer ==
    \/ Debounce
    \/ \E t \in Timers : Expire(t)
    \/ \E t \in Timers : ProcessPending(t)
    \/ Flush
    \/ Clear

-----------------------------------------------------------------------------
(* Neo4jClient.execute_query (graph_db/neo4j_client.py): the retry loop.   *)
(* One step is one pass of the loop body, with what the session did.       *)

\* the greatest value of the argument `retries`
MaxRetries == 3

\* the errors execute_query catches and retries
TransientErrors == {"ServiceUnavailable", "SessionExpired", "TransientError"}

\* what one attempt can end with: the records result.data() returns, one of
\* the transient errors, or another exception
AttemptOutcomes ==
    {[kind |-> "records", value |-> v] : v \in {<<>>, <<"row">>}}
    \cup {[kind |-> "error", value |-> <<e>>] : e \in TransientErrors \cup {"ValueError"}}

\* execute_query(query, parameters, retries) has been called and has not
\* entered the loop
Called(retries) ==
    [retries |-> retries, attempt |-> 0, last_error |-> <<>>,
     state |-> "running", value |-> <<>>]

\* the loop body as it would be if every exception were caught by the first clause
attempt_retrying_all(self, outcome) ==
    IF outcome.kind = "records"
    THEN [self EXCEPT !.state = "returned", !.value = outcome.value]
    ELSE [self EXCEPT !.last_error = outcome.value, !.attempt = @ + 1]

\* one pass of the body of `for attempt in range(retries)`
attempt(self, outcome) ==
    IF outcome.kind = "records"
    THEN [self EXCEPT !.state = "returned", !.value = outcome.value]
    ELSE IF outcome.value[1] \in TransientErrors
    THEN [self EXCEPT !.last_error = outcome.value, !.attempt = @ + 1]
    ELSE [self EXCEPT !.state = "raised", !.value = outcome.value]

\* after the loop: if last_error: raise last_error; return []
after_loop(self) ==
    IF self.last_error # <<>>
    THEN [self EXCEPT !.state = "raised", !.value = self.last_error]
    ELSE [self EXCEPT !.state = "returned", !.value = <<>>]

InitQuery ==
    /\ execution \in {Called(retries) : retries \in 0..MaxRetries}
    /\ outcomes = <<>>

\* no query is being executed
IdleQuery ==
    /\ execution = Called(0)
    /\ outcomes = <<>>

\* the loop runs its body once more
Attempt ==
    /\ execution.state = "running"
    /\ execution.attempt < execution.retries
    /\ \E outcome \in AttemptOutcomes :
          /\ execution' = attempt(execution, outcome)
          /\ outcomes' = Append(outcomes, outcome)
    /\ UNCHANGED <<detector_vars, snapshot_vars, compare_vars, parser_vars, debouncer_vars, emitter>>

\* the loop has ended without a return or a raise
AfterLoop ==
    /\ execution.state = "running"
    /\ execution.attempt >= execution.retries
    /\ execution' = after_loop(execution)
    /\ UNCHANGED outcomes
    /\ UNCHANGED <<detector_vars, snapshot_vars, compare_vars, parser_vars, debouncer_vars, emitter>>

NextQuery == Attempt \/ AfterLoop

-----------------------------------------------------------------------------
(* The deep-parse emitter (scripts/parse_deep.py): parse_project after     *)
(* ProjectParser.parse_project has returned.  `upserts` is the sequence of *)
(* node and relationship upserts it has sent to the store.                 *)

\* the emitter has not run
NotEmitted == [state |-> "idle", error |-> "", upserts |-> <<>>]

\* parse_project of parse_deep.py from `if not modules and not packages` on.
\* Neo4jClient defines bulk_create_nodes and bulk_create_relationships and no
\* bulk_create_packages: the attribute lookup raises AttributeError, the
\* finally clause closes the client, and no upsert has been sent.
store_project(packages_found, modules_found) ==
    IF modules_found = <<>> /\ packages_found = <<>>
    THEN [state |-> "returned", error |-> "No modules parsed", upserts |-> <<>>]
    ELSE [state |-> "raised", error |-> "AttributeError", upserts |-> <<>>]

\* parse_deep.parse_project goes on after parser.parse_project() has returned
StoreProject ==
    /\ progress.pass = 4
    /\ emitter = NotEmitted
    /\ emitter' = store_project(packages, module_infos)
    /\ UNCHANGED <<detector_vars, snapshot_vars, compare_vars, parser_vars, debouncer_vars,
                   client_vars>>

\* the deep parse: the three passes, then the emitter
NextDeepParse == NextProject \/ StoreProject

-----------------------------------------------------------------------------
(* Specifications *)

\* neither parser is in use
IdleParsers == IdleProject /\ relative_import = NoRelative

\* the services are as constructed
IdleServices == InitDebouncer /\ IdleQuery /\ emitter = NotEmitted

\* the change detector over a changing filesystem
Init == InitDetector /\ IdleSnapshots /\ IdleCompare /\ IdleParsers /\ IdleServices
Next == NextDetector
Spec == Init /\ [][Next]_vars

\* two snapshots of one file, parsed and fingerprinted
InitHash == IdleDetector /\ InitSnapshots /\ IdleCompare /\ IdleParsers /\ IdleServices
SpecHash == InitHash /\ [][NextSnapshots]_vars

\* compare_hashes on two arbitrary maps
InitCmp == IdleDetector /\ IdleSnapshots /\ InitCompare /\ IdleParsers /\ IdleServices
SpecCompare == InitCmp /\ [][NextCompare]_vars

\* parse_project on one project, and the emitter on what it returned
InitPrj ==
    /\ IdleDetector /\ IdleSnapshots /\ IdleCompare
    /\ project \in Projects /\ NewParser /\ relative_import = NoRelative
    /\ IdleServices
SpecProject == InitPrj /\ [][NextDeepParse]_vars

\* the two _resolve_relative_import on one input
InitRel ==
    /\ IdleDetector /\ IdleSnapshots /\ IdleCompare
    /\ IdleProject /\ relative_import \in RelativeImports
    /\ IdleServices
SpecRelative == InitRel /\ [][ResolveRelativeImport]_vars

\* a Debouncer with its callers and Timer threads
InitDeb ==
    /\ IdleDetector /\ IdleSnapshots /\ IdleCompare /\ IdleParsers
    /\ InitDebouncer /\ IdleQuery /\ emitter = NotEmitted
SpecDebouncer == InitDeb /\ [][NextDebouncer]_vars

\* the same where every Timer's interval ends and every thread goes on
SpecDebouncerFair ==
    /\ SpecDebouncer
    /\ \A t \in Timers : WF_vars(Expire(t)) /\ WF_vars(ProcessPending(t))

\* one call of execute_query
InitExec ==
    /\ IdleDetector /\ IdleSnapshots /\ IdleCompare /\ IdleParsers
    /\ InitDebouncer /\ InitQuery /\ emitter = NotEmitted
SpecQuery == InitExec /\ [][NextQuery]_vars

-----------------------------------------------------------------------------
(* Properties *)

\* self._hash_cache.get(file_path, {})
CachedHashes(file_path) ==
    IF file_path \in DOMAIN hash_cache THEN hash_cache[file_path] ELSE EmptyDict

\* the place of the definition at source[i] among the records of its kind:
\* parse_content appends the records in source order
RecordIndex(source, i) ==
    Cardinality({j \in 1..i : DefinitionKind(source[j]) = DefinitionKind(source[i])})

\* how often file_path occurs in the list file_paths
Occurrences(file_paths, file_path) ==
    Cardinality({i \in 1..Len(file_paths) : file_paths[i] = file_path})

\* the lists that are permutations of the list file_paths
PermutationsOf(file_paths) ==
    {permuted \in [1..Len(file_paths) -> Paths] :
        \A file_path \in Paths :
            Occurrences(permuted, file_path) = Occurrences(file_paths, file_path)}

\* C1: with (added, removed, modified) = compare_hashes(old, new), deleting the
\* removed keys from old, inserting new[k] for every added k and overwriting
\* with new[k] for every modified k gives exactly the map new.
C1_PatchGivesNew ==
    compared =>
        LET kept == DOMAIN old_hashes \ diff.removed
            patched == [k \in kept \cup diff.added |->
                           IF k \in diff.added \cup diff.modified
                           THEN new_hashes[k] ELSE old_hashes[k]]
        IN  patched = new_hashes

\* a comparison that reports an added, a removed and a modified key
C1_Witness ==
    compared /\ diff.added # {} /\ diff.removed # {} /\ diff.modified # {}

\* C2 as stated: detect_changes on a path that exists leaves a cache entry
\* `new` for the path, the freshly computed map, and returns added = new \ old,
\* removed = old \ new, modified = the common keys whose hashes differ, old
\* being the entry cached before (empty when there was none).
C2_ExistingPathIsCompared ==
    [][(call'.op = "detect_changes" /\ Exists(call'.paths[1])) =>
          LET file_path == call'.paths[1]
              old == CachedHashes(file_path)
          IN  /\ file_path \in DOMAIN hash_cache'
              /\ ~ParseFileRaises(file_path)
                    => hash_cache'[file_path] = hash_tree(parse_file(file_path))
              /\ LET new == hash_cache'[file_path]
                 IN  /\ changes'.added_nodes = DOMAIN new \ DOMAIN old
                     /\ changes'.removed_nodes = DOMAIN old \ DOMAIN new
                     /\ changes'.modified_nodes =
                            {k \in DOMAIN old \cap DOMAIN new : old[k] # new[k]}
                     /\ file_path \notin DOMAIN hash_cache
                            => changes'.added_nodes = DOMAIN new]_vars

\* C2, amended: detect_changes on a path that exists and whose parse does not
\* raise returns added = new \ old, removed = old \ new and modified = the
\* common keys whose hashes differ, and replaces the cached entry by new (so a
\* first call on an uncached file reports every name as added); when the parse
\* raises it returns an empty change set and leaves both caches as they were.
\* In both cases a second call made while the file is unchanged reports no
\* added, removed or modified name.
C2_ParsedPathIsCompared ==
    [][(call'.op = "detect_changes" /\ Exists(call'.paths[1])) =>
          LET file_path == call'.paths[1]
              old == CachedHashes(file_path)
              new == hash_tree(parse_file(file_path))
          IN  /\ ParseFileRaises(file_path)
                    => /\ changes' = EmptyChangeSet
                       /\ hash_cache' = hash_cache
                       /\ module_cache' = module_cache
              /\ ~ParseFileRaises(file_path)
                    => /\ changes'.added_nodes = DOMAIN new \ DOMAIN old
                       /\ changes'.removed_nodes = DOMAIN old \ DOMAIN new
                       /\ changes'.modified_nodes =
                              {k \in DOMAIN old \cap DOMAIN new : old[k] # new[k]}
                       /\ DOMAIN hash_cache' = DOMAIN hash_cache \cup {file_path}
                       /\ hash_cache'[file_path] = new
                       /\ \A other \in DOMAIN hash_cache \ {file_path} :
                              hash_cache'[other] = hash_cache[other]
                       /\ file_path \notin DOMAIN hash_cache
                              => changes'.added_nodes = DOMAIN new
              /\ (call.op = "detect_changes" /\ call.paths = call'.paths)
                    => /\ changes'.added_nodes = {}
                       /\ changes'.removed_nodes = {}
                       /\ changes'.modified_nodes = {}]_vars

\* detect_changes has compared a rewritten file with its cached entry
C2_Witness ==
    /\ call.op = "detect_changes"
    /\ Exists(call.paths[1])
    /\ ~ParseFileRaises(call.paths[1])
    /\ changes.added_nodes # {}
    /\ changes.modified_nodes # {}
    /\ hash_cache[call.paths[1]] = hash_tree(parse_file(call.paths[1]))

\* C3: detect_changes on a path that is gone from disk and is cached returns
\* removed_nodes = the names cached for the path, added_nodes and
\* modified_nodes empty, and removes the path from the hash cache and the module
\* cache; on a missing path that is not cached it returns an empty change set
\* and changes no cache.
C3_DeletedPathIsDropped ==
    [][(call'.op = "detect_changes" /\ ~Exists(call'.paths[1])) =>
          LET file_path == call'.paths[1]
          IN  IF file_path \in DOMAIN hash_cache
              THEN /\ changes'.removed_nodes = DOMAIN hash_cache[file_path]
                   /\ changes'.added_nodes = {}
                   /\ changes'.modified_nodes = {}
                   /\ DOMAIN hash_cache' = DOMAIN hash_cache \ {file_path}
                   /\ DOMAIN module_cache' = DOMAIN module_cache \ {file_path}
                   /\ \A other \in DOMAIN hash_cache' : hash_cache'[other] = hash_cache[other]
                   /\ \A other \in DOMAIN module_cache' :
                          module_cache'[other] = module_cache[other]
              ELSE /\ changes' = EmptyChangeSet
                   /\ hash_cache' = hash_cache
                   /\ module_cache' = module_cache]_vars

\* detect_changes has dropped a cached path that is gone from disk
C3_Witness ==
    /\ call.op = "detect_changes"
    /\ ~Exists(call.paths[1])
    /\ changes.removed_nodes # {}
    /\ call.paths[1] \notin DOMAIN hash_cache
    /\ call.paths[1] \notin DOMAIN module_cache

\* C4: in every ChangeSet that detect_changes or detect_changes_batch returns,
\* added_nodes, removed_nodes and modified_nodes are pairwise disjoint.
C4_SetsDisjoint ==
    call.op \in {"detect_changes", "detect_changes_batch"} =>
        /\ changes.added_nodes \cap changes.removed_nodes = {}
        /\ changes.added_nodes \cap changes.modified_nodes = {}
        /\ changes.removed_nodes \cap changes.modified_nodes = {}

\* C5: for a fixed filesystem and a fixed starting cache, detect_changes_batch
\* returns the same ChangeSet and leaves the same hash and module caches for
\* every permutation of its file_paths list.
C5_BatchOrderIndependent ==
    [][call'.op = "detect_changes_batch" =>
          \A permuted \in PermutationsOf(call'.paths) :
              detect_changes_batch(permuted, hash_cache, module_cache)
              = [changes |-> changes', hash_cache |-> hash_cache',
                 module_cache |-> module_cache']]_vars

\* a batch over two paths, one of them given twice, that found something added
\* and something removed
C5_Witness ==
    /\ call.op = "detect_changes_batch"
    /\ Len(call.paths) = 3
    /\ call.paths[1] = call.paths[3]
    /\ call.paths[1] # call.paths[2]
    /\ changes.added_nodes # {}
    /\ changes.removed_nodes # {}

\* C6: changing the content of a descendant of a module (the statements of a
\* function or method body, the value of a variable, the members of a class)
\* changes the module hash computed after parsing.
C6_ContentChangesModuleHash ==
    (stage = "hashed" /\ edit.kind \in {"body", "value", "delete_member"}) =>
        modB.hash # modA.hash

\* C7: whenever the change set of the hash_tree maps of two snapshots of a file
\* holds the name of a descendant, every containing scope that is in both maps
\* (each enclosing class, the module) is in modified.
C7_ScopesOfChangesModified ==
    stage = "hashed" =>
        LET d == compare_hashes(treeA, treeB)
        IN  \A name \in d.added \cup d.removed \cup d.modified :
                \A n \in 1..(Len(name) - 1) :
                    SubSeq(name, 1, n) \in DOMAIN treeA \cap DOMAIN treeB
                        => SubSeq(name, 1, n) \in d.modified

\* C8: permuting the source order of sibling top-level classes or functions
\* changes neither the module hash nor the hash of any of those classes or
\* functions.
C8_SiblingOrderIgnored ==
    (stage = "hashed" /\ edit.kind = "permute_siblings") =>
        /\ modB.hash = modA.hash
        /\ treeB[<<Stem(SnapshotPath)>>] = treeA[<<Stem(SnapshotPath)>>]
        /\ \A i \in 1..Len(snapB) :
              /\ DefinitionKind(snapB[i]) = "function_definition"
                    => hash_function(modB.functions[RecordIndex(snapB, i)])
                       = hash_function(modA.functions[RecordIndex(snapA, edit.perm[i])])
              /\ DefinitionKind(snapB[i]) = "class_definition"
                    => hash_class(modB.classes[RecordIndex(snapB, i)])
                       = hash_class(modA.classes[RecordIndex(snapA, edit.perm[i])])

\* two different top-level definitions have changed places and both snapshots
\* are fingerprinted
C8_Witness ==
    /\ stage = "hashed"
    /\ edit.kind = "permute_siblings"
    /\ snapB # snapA
    /\ modB.hash # <<>>

\* C9: swapping two different decorators of a function, nothing else changed,
\* changes hash_function of that function and the hash of its module.
C9_DecoratorOrderCounts ==
    (stage = "hashed" /\ edit.kind = "swap_decorators") =>
        /\ hash_function(modB.functions[RecordIndex(snapB, edit.at)])
           # hash_function(modA.functions[RecordIndex(snapA, edit.at)])
        /\ modB.hash # modA.hash

\* C10: two records with identical content have identical hash_module values and
\* hash_tree maps, and a second hash_tree call on a record returns the map the
\* first call returned, the module.hash the first call wrote notwithstanding.
C10_Deterministic ==
    /\ (stage # "source" /\ snapB = snapA) => (treeB = treeA /\ modB.hash = modA.hash)
    /\ stage = "rehashed" =>
          /\ treeA2 = treeA
          /\ hash_module(modA) = modA.hash
          /\ hash_module(modA) = hash_module(parse_content(snapA, SnapshotPath))

\* hash_tree was called twice on a record that holds a class or a function
C10_Witness ==
    /\ stage = "rehashed"
    /\ modA.hash # <<>>
    /\ Cardinality(DOMAIN treeA2) >= 3

\* C11: the map hash_tree returns has one entry of its own for the module and
\* for every class, method, function, variable and import of it, and each
\* entry holds the fingerprint of its node: no entry is missing or replaced by
\* the fingerprint of another node.
C11_EveryNodeHasItsEntry ==
    stage = "hashed" =>
        LET items == HashTreeItems(modA)
        IN  /\ Cardinality(DOMAIN treeA) = Len(items)
            /\ \A i \in 1..Len(items) :
                  items[i][1] \in DOMAIN treeA /\ treeA[items[i][1]] = items[i][2]

\* the positions of the edges of one type in self.relationships
EdgesOfType(relationship_type) ==
    {i \in 1..Len(relationships) : relationships[i].relationship_type = relationship_type}

RECURSIVE ContainedWithin(_, _)
\* the IDs a walk of exactly `steps` CONTAINS edges leads to from the IDs `ids`
ContainedWithin(ids, steps) ==
    IF steps = 0 THEN ids
    ELSE ContainedWithin({relationships[i].target_id :
                             i \in {j \in EdgesOfType("CONTAINS") :
                                       relationships[j].source_id \in ids}},
                         steps - 1)

\* C12: when parse_project has returned, the CONTAINS edges form a forest: no
\* ID is the target of two CONTAINS edges, every class, method and function of
\* the symbol table is the target of one, and no walk along CONTAINS edges
\* comes back to the ID it started from.
C12_ContainsIsForest ==
    progress.pass = 4 /\ relationships # <<>> =>
        /\ \A i, j \in EdgesOfType("CONTAINS") :
              relationships[i].target_id = relationships[j].target_id => i = j
        /\ \A id \in DOMAIN symbols :
              symbols[id].kind \in {"class", "method", "function"} =>
                  \E i \in EdgesOfType("CONTAINS") : relationships[i].target_id = id
        /\ \A id \in DOMAIN symbols :
              \A steps \in 1..Cardinality(DOMAIN symbols) :
                  id \notin ContainedWithin({id}, steps)

\* C13: both ends of every relationship, of every type, are keys of the symbol
\* table of the run, also when a file failed in Pass 2.
C13_EndpointsAreSymbols ==
    \A i \in 1..Len(relationships) :
        /\ relationships[i].source_id \in DOMAIN symbols
        /\ relationships[i].target_id \in DOMAIN symbols

\* a run with a failed file has returned edges of all five types
C13_Witness ==
    /\ progress.pass = 4
    /\ errors # <<>>
    /\ \A t \in {"CONTAINS", "DEFINES", "IMPORTS", "CALLS", "INHERITS"} :
          EdgesOfType(t) # {}

\* C14: qualified names and IDs correspond one to one: the entries registered
\* for packages, modules, classes and functions under one qualified name have
\* one ID, and the index maps no two qualified names to one ID.
C14_QualifiedNamesOneToOne ==
    /\ \A a, b \in DOMAIN symbols :
          /\ symbols[a].kind # "variable"
          /\ symbols[b].kind # "variable"
          /\ symbols[a].qualified_name = symbols[b].qualified_name
          => a = b
    /\ \A q, r \in DOMAIN qualified_to_id :
          qualified_to_id[q] = qualified_to_id[r] => q = r

RECURSIVE ScopeChain(_, _)
\* "::" and the name of every definition on the way from a block to the node at
\* `location` in it, the node included
ScopeChain(block, location) ==
    IF location = <<>> THEN <<>>
    ELSE LET node == DefinitionNode(block[Head(location)])
         IN  <<"::", node.name>> \o ScopeChain(node.body, Tail(location))

\* C15: the ID of every class, method and function is the relative path of its
\* file followed by "::" and the name of each enclosing scope, outermost first,
\* and by its own name.
C15_IdIsScopeChain ==
    \A k \in 1..Len(module_infos) :
        LET module == module_infos[k]
            content == project[module.id].content
            Chained(definition) ==
                definition.id = module.id \o ScopeChain(content, definition.location)
        IN  /\ \A i \in 1..Len(module.functions) : Chained(module.functions[i])
            /\ \A c \in 1..Len(module.classes) :
                  /\ Chained(module.classes[c])
                  /\ \A i \in 1..Len(module.classes[c].methods) :
                        Chained(module.classes[c].methods[i])

\* file_imports.get(file_id, {})
ImportsOf(file_id) ==
    IF file_id \in DOMAIN file_imports THEN file_imports[file_id] ELSE EmptyDict

\* the candidates of the resolution rules for the name `name` called in the
\* file `file_id`, in a method of the class named `class_name` ("" in a
\* function), in the order of the rules; a rule without an existing ID gives {}
RuleCandidates(name, file_id, class_name) ==
    LET imports == ImportsOf(file_id)
        Existing(id) == {id} \cap DOMAIN symbols
        Indexed(qualified_name) ==
            IF qualified_name \in DOMAIN qualified_to_id
            THEN {qualified_to_id[qualified_name]} ELSE {}
        Through(entry) ==
            IF entry.imported_names # <<>> /\ Len(entry.qualified_name) > 1
            THEN SubSeq(entry.qualified_name, 1, Len(entry.qualified_name) - 1) \o Tail(name)
            ELSE entry.qualified_name \o Tail(name)
        dotted == Len(name) > 1
    IN  << \* (1) a dotted name through an import alias, then the self/cls receiver
           IF dotted /\ <<name[1]>> \in DOMAIN imports
           THEN Indexed(Through(imports[<<name[1]>>])) ELSE {},
           IF dotted /\ name[1] \in {"self", "cls"} /\ class_name # ""
           THEN Existing(file_id \o <<"::", class_name, "::", name[2]>>) ELSE {},
           \* (2) a member of the enclosing class
           IF class_name # "" THEN Existing(file_id \o <<"::", class_name, "::">> \o name)
           ELSE {},
           \* (3) a definition of the module
           Existing(file_id \o <<"::">> \o name),
           \* (4) an import alias: the imported name, then the name in the target
           IF name \in DOMAIN imports THEN Indexed(imports[name].qualified_name) ELSE {},
           IF name \in DOMAIN imports /\ imports[name].target_id # <<>>
           THEN Existing(imports[name].target_id \o <<"::">> \o name) ELSE {},
           \* (5) the name as a qualified name
           Indexed(name) >>

\* the candidate of the earliest rule that has one, as a set: {} when none has
EarliestCandidate(candidates) ==
    LET applicable == {i \in 1..Len(candidates) : candidates[i] # {}}
    IN  IF applicable = {} THEN {}
        ELSE candidates[CHOOSE i \in applicable : \A j \in applicable : i <= j]

\* the targets of the CALLS edges the function `func` has for the name `name`
CallTargets(func, name) ==
    {relationships[i].target_id :
        i \in {j \in EdgesOfType("CALLS") : /\ relationships[j].source_id = func.id
                                             /\ relationships[j].name = name}}

\* C16: when parse_project has returned, every call name of every function and
\* method has CALLS edges to one target at most, the candidate of the earliest
\* rule that yields an existing ID, and has no CALLS edge when no rule does.
C16_EarliestRuleWins ==
    progress.pass = 4 =>
        \A k \in 1..Len(module_infos) :
            LET module == module_infos[k]
                Resolved(func, class_name) ==
                    \A i \in 1..Len(func.calls) :
                        CallTargets(func, func.calls[i])
                            = EarliestCandidate(RuleCandidates(func.calls[i], module.id,
                                                               class_name))
            IN  /\ \A i \in 1..Len(module.functions) : Resolved(module.functions[i], "")
                /\ \A c \in 1..Len(module.classes) :
                      \A i \in 1..Len(module.classes[c].methods) :
                          Resolved(module.classes[c].methods[i], module.classes[c].name)

\* a method calls f where its class has a member f and its module a function f:
\* the edge goes to the member; and a call in the same run has no edge
C16_Witness ==
    /\ progress.pass = 4
    /\ \E i \in EdgesOfType("CALLS") :
          LET edge == relationships[i]
          IN  /\ edge.name = <<"f">>
              /\ edge.target_id = <<"a", "m.py", "::", "C", "::", "f">>
              /\ <<"a", "m.py", "::", "f">> \in DOMAIN symbols
    /\ \E k \in 1..Len(module_infos) :
          \E i \in 1..Len(module_infos[k].functions) :
              \E n \in 1..Len(module_infos[k].functions[i].calls) :
                  CallTargets(module_infos[k].functions[i],
                              module_infos[k].functions[i].calls[n]) = {}

\* C17: when parse_project has returned, every CALLS edge whose target is a
\* class of the symbol table has an INSTANTIATES edge with the same ends.
C17_ClassCallInstantiates ==
    progress.pass = 4 =>
        \A i \in EdgesOfType("CALLS") :
            symbols[relationships[i].target_id].kind = "class" =>
                \E j \in EdgesOfType("INSTANTIATES") :
                    /\ relationships[j].source_id = relationships[i].source_id
                    /\ relationships[j].target_id = relationships[i].target_id

\* C18: the symbol table and the qualified-name index keep the definition
\* registered first: the entry of the ID of a function is the one of the first
\* function of its module with that ID, and a qualified name that is indexed
\* stays indexed to the same ID.
C18_FirstRegistrationKept ==
    /\ \A k \in 1..Len(module_infos) :
          LET functions == module_infos[k].functions
          IN  \A i \in 1..Len(functions) :
                  (\A j \in 1..(i - 1) : functions[j].id # functions[i].id)
                      /\ symbols[functions[i].id].kind = "function"
                  => symbols[functions[i].id].location = functions[i].location
    /\ \A k \in 1..Len(module_infos) :
          \A i \in 1..Len(module_infos[k].functions) :
              LET func == module_infos[k].functions[i]
              IN  (\A l \in 1..(k - 1) :
                      \A j \in 1..Len(module_infos[l].functions) :
                          module_infos[l].functions[j].qualified_name # func.qualified_name)
                  /\ (\A j \in 1..(i - 1) :
                          module_infos[k].functions[j].qualified_name # func.qualified_name)
                  /\ symbols[qualified_to_id[func.qualified_name]].kind = "function"
                  => qualified_to_id[func.qualified_name] = func.id

\* the directory of a package record: the root is <<>>
PackageDir(package) == IF package.path = <<".">> THEN <<>> ELSE package.path

\* the proper ancestors of a directory, the root included, that hold a marker file
MarkedAncestors(dir) ==
    {n \in 0..(Len(dir) - 1) :
        LET marker == Append(SubSeq(dir, 1, n), "__init__.py")
        IN  marker \in DOMAIN project /\ project[marker].kind # "absent"}

\* C19: the parent_id of every package record is the id of the package of the
\* nearest ancestor directory that holds a marker file, the root included, and
\* is empty when no ancestor holds one.
C19_ParentIsNearestPackage ==
    \A p \in 1..Len(packages) :
        LET dir == PackageDir(packages[p])
            marked == MarkedAncestors(dir)
            nearest == SubSeq(dir, 1, CHOOSE n \in marked : \A m \in marked : m <= n)
        IN  IF marked = {} THEN packages[p].parent_id = <<>>
            ELSE \E q \in 1..Len(packages) :
                    /\ PackageDir(packages[q]) = nearest
                    /\ packages[p].parent_id = packages[q].id

\* C20: for a package of n segments and 1 <= level <= n both resolvers give the
\* first n - level + 1 segments of the package followed by the written module
\* name, and on every input the two give the same result.
C20_RelativeImportResolved ==
    relative_import.resolved =>
        LET n == Len(relative_import.current_package)
            level == relative_import.relative_level
        IN  /\ relative_import.by_parser = relative_import.by_extractor
            /\ 1 <= level /\ level <= n =>
                  relative_import.by_parser
                      = [i \in 1..(n - level + 1) |-> relative_import.current_package[i]]
                        \o relative_import.module_name

\* "from ..x import" in the package a.b.a resolves to a.b.x
C20_Witness ==
    /\ relative_import.resolved
    /\ relative_import.current_package = <<"a", "b", "a">>
    /\ relative_import.relative_level = 2
    /\ relative_import.module_name = <<"x">>
    /\ relative_import.by_parser = <<"a", "b", "x">>

\* the IDs of a file and of the definitions in it: the file ID, and every ID
\* that goes on from it with "::"
IdsOfFile(file_path) ==
    {id \in DOMAIN symbols :
        \/ id = file_path
        \/ /\ Len(id) > Len(file_path)
           /\ SubSeq(id, 1, Len(file_path)) = file_path
           /\ id[Len(file_path) + 1] = "::"}

\* C21: when parse_project has returned, a file whose extraction raised in
\* Pass 2 has one error entry, every other discovered file has a module
\* record, and the output has no module record for the failed file and no
\* relationship with the file or one of its definitions at either end.
C21_FailedFileSkipped ==
    progress.pass = 4 =>
        \A n \in 1..Len(discover_files(project)) :
            LET file_path == discover_files(project)[n]
                recorded == {k \in 1..Len(module_infos) : module_infos[k].id = file_path}
            IN  IF project[file_path].kind = "unreadable"
                THEN /\ Cardinality({e \in 1..Len(errors) : errors[e] = file_path}) = 1
                     /\ recorded = {}
                     /\ \A i \in 1..Len(relationships) :
                           /\ relationships[i].source_id \notin IdsOfFile(file_path)
                           /\ relationships[i].target_id \notin IdsOfFile(file_path)
                ELSE Cardinality(recorded) = 1

\* the functions and methods of a module record
FunctionsOf(module) ==
    {module.functions[i] : i \in 1..Len(module.functions)}
    \cup UNION {{module.classes[c].methods[i] : i \in 1..Len(module.classes[c].methods)} :
                   c \in 1..Len(module.classes)}

\* C25: a file holds `from M import S as T` (or `from M import S`, T = S), the
\* project module M defines the top-level function or class S, and the file has
\* no definition T of its own: when parse_project has returned, every call T()
\* in a function of the file has a CALLS edge to the ID of S in M.
C25_ImportedCallResolved ==
    progress.pass = 4 =>
        \A k, j \in 1..Len(module_infos) :
            LET file == module_infos[k]
                M == module_infos[j]
                content == project[file.id].content
            IN  \A n \in 1..Len(content) :
                    content[n].type = "import_from_statement"
                    /\ content[n].children[1].type = "dotted_name"
                    /\ content[n].children[1].text = symbols[M.id].qualified_name
                    => \A i \in 2..Len(content[n].children) :
                           LET c == content[n].children[i]
                               S == IF c.type = "aliased_import" THEN c.name[1] ELSE c.text[1]
                               T == IF c.type = "aliased_import" THEN c.alias ELSE c.text[1]
                           IN  (/\ \/ \E d \in 1..Len(M.functions) : M.functions[d].name = S
                                   \/ \E d \in 1..Len(M.classes) :
                                         M.classes[d].name = S /\ Len(M.classes[d].location) = 1
                                /\ file.id \o <<"::", T>> \notin DOMAIN symbols)
                               => \A func \in FunctionsOf(file) :
                                      (\E a \in 1..Len(func.calls) : func.calls[a] = <<T>>)
                                      => M.id \o <<"::", S>> \in CallTargets(func, <<T>>)

\* C28: when parse_project has returned, a call of an undotted name that no
\* definition of the calling file has and no import of the file binds has no
\* CALLS edge.
C28_UnboundNameUnresolved ==
    progress.pass = 4 =>
        \A k \in 1..Len(module_infos) :
            LET file == module_infos[k]
            IN  \A func \in FunctionsOf(file) :
                    \A a \in 1..Len(func.calls) :
                        LET N == func.calls[a]
                        IN  (/\ Len(N) = 1
                             /\ \A id \in IdsOfFile(file.id) :
                                   id = file.id \/ symbols[id].name # N[1]
                             /\ N \notin DOMAIN ImportsOf(file.id))
                            => CallTargets(func, N) = {}

\* C27: after any sequence of ChangeDetector operations the hash cache and the
\* module cache hold the same paths, and the fingerprint map cached for a path
\* is hash_tree of the module cached for it.
\* Hence propagate_hash_changes leaves the hash cache as it was.
C27_CachesAligned ==
    /\ [](/\ DOMAIN hash_cache = DOMAIN module_cache
          /\ \A file_path \in DOMAIN hash_cache :
                hash_cache[file_path] = hash_tree(module_cache[file_path]))
    /\ [][PropagateHashChanges => hash_cache' = hash_cache]_vars

\* propagate_hash_changes has run on a cache that holds every path, one of
\* them a file that no longer parses
C27_Witness ==
    /\ call.op = "propagate_hash_changes"
    /\ DOMAIN hash_cache = Paths
    /\ \E file_path \in Paths : ParseFileRaises(file_path)

\* C24: a batch handed to the callback, by a Timer thread or by flush(), holds
\* every path once at most, with the change type of the latest debounce() call
\* for the path since the batch before it.
C24_BatchHoldsLatestChange ==
    handed.by # "none" =>
        /\ \A i, j \in 1..Len(handed.changes) :
              handed.changes[i].path = handed.changes[j].path => i = j
        /\ \A i \in 1..Len(handed.changes) :
              /\ handed.changes[i].path \in DOMAIN handed.since
              /\ handed.changes[i].change_type
                     = handed.since[handed.changes[i].path].change_type

\* a Timer thread hands over two paths, the first of them given to debounce()
\* more than once since the batch before
C24_Witness ==
    /\ handed.by = "timer"
    /\ Len(handed.changes) = 2
    /\ handed.since[handed.changes[1].path].repeated

\* C29: a batch is handed over by a Timer thread only if that Timer is the one
\* the latest debounce() call started: a Timer that a later debounce() call
\* replaced hands nothing over, and nothing is handed over before the interval
\* that began with the latest debounce() call has ended.
C29_OnlyLatestTimerDelivers ==
    handed.by = "timer" => handed.latest

\* C30 as stated: a path given to debounce() is in a batch later, or clear() is
\* called, and no batch holds a path whose change another batch held.
C30_EveryChangeDelivered ==
    /\ \A path \in DebouncedPaths : (path \in awaited) ~> (path \notin awaited)
    /\ [](~twice)

\* C30 for callers that stop calling debounce(): unless debounce() calls go on
\* for ever, a path given to debounce() is in a batch later, or clear() is
\* called; and no batch holds a path whose change another batch held.
C30_DeliveredOnceCallsStop ==
    /\ \/ []<><<Debounce>>_vars
       \/ \A path \in DebouncedPaths : (path \in awaited) ~> (path \notin awaited)
    /\ [](~twice)

\* both paths were given to debounce(), and a Timer thread has handed them over
\* while the Timer a later debounce() call started still waits
C30_Witness ==
    /\ handed.by = "timer"
    /\ PathsOf(handed.changes) = DebouncedPaths
    /\ awaited = {}
    /\ \E t \in Timers : debouncer.timers[t] = "waiting"

\* outcome is one of the errors execute_query retries
IsTransient(outcome) == outcome.kind = "error" /\ outcome.value[1] \in TransientErrors

NodeUpserts(id) ==
    {u \in 1..Len(emitter.upserts) :
        emitter.upserts[u].op = "node" /\ emitter.upserts[u].id = id}

\* the places of the upserts of a relationship in the sequence sent to the store
RelationshipUpserts(relationship) ==
    {u \in 1..Len(emitter.upserts) :
        /\ emitter.upserts[u].op = "relationship"
        /\ emitter.upserts[u].source_id = relationship.source_id
        /\ emitter.upserts[u].target_id = relationship.target_id
        /\ emitter.upserts[u].relationship_type = relationship.relationship_type}

KindRank(label) ==
    CASE label = "Package" -> 1 [] label = "Module" -> 2 [] label = "Class" -> 3
      [] label = "Function" -> 4 [] label = "Variable" -> 5

\* CONTAINS and DEFINES are the structural edges
IsStructural(relationship) == relationship.relationship_type \in {"CONTAINS", "DEFINES"}

\* C23: the node upserts sent to the store are ordered by kind (packages,
\* modules, classes, functions, variables), and the relationships, in the
\* order in which Pass 3 emits them and bulk_create_relationships sends them,
\* have every CONTAINS or DEFINES edge of the project before any IMPORTS,
\* CALLS, INSTANTIATES or INHERITS edge.
C23_OrderedByKind ==
    /\ \A u, v \in 1..Len(emitter.upserts) :
          /\ u < v
          /\ emitter.upserts[u].op = "node"
          /\ emitter.upserts[v].op = "node"
          => KindRank(emitter.upserts[u].label) <= KindRank(emitter.upserts[v].label)
    /\ progress.pass = 4 =>
          \A i, j \in 1..Len(relationships) :
              i < j /\ IsStructural(relationships[j]) => IsStructural(relationships[i])

====
